---- MODULE Spec2Model ----
(***************************************************************************)
(* A model of the restaurant record store of the restaurant chatbot        *)
(* server: the menu merge helper (mergeMenus), the upsert route            *)
(* (POST /restaurants/:id), the bulk rescan (POST /admin/rescan-all) and   *)
(* the persistence helpers (loadRestaurants, saveRestaurants), the offer    *)
(* activity check (offerIsActive, getActiveOffers) and the chat route      *)
(* (POST /chat).                                                           *)
(*                                                                         *)
(* A JavaScript object is a TLA+ record whose DOMAIN is the set of the     *)
(* object's own properties: a missing property (or one holding undefined,  *)
(* which JSON.stringify drops) is a field that is not in the DOMAIN.  An   *)
(* array is a sequence.  JSON null is the record JNull.                    *)
(***************************************************************************)
EXTENDS Integers, Sequences, FiniteSets, TLC

VARIABLES
    restaurants,   \* the in-memory map  id -> record  (let restaurants = {})
    storeIsNull,   \* TRUE when the variable restaurants holds null, not a map
    order,         \* the keys of restaurants in property (insertion) order
    file,          \* the content of restaurants.json
    backup,        \* the content of today's file in backups/
    last,          \* the last request served: its input and its outcome
    nops,          \* the number of requests served so far
    mergeOld,      \* mergeMenus, called on its own: the oldMenu argument
    mergeNew,      \*   the newMenu argument
    mergeOut,      \*   the results of the successive calls
    mergeHeldOld,  \*   what the array passed as oldMenu holds now
    mergeHeldNew,  \*   what the array passed as newMenu holds now
    chatLog,       \* the lines of chat-logs.jsonl appended since the start
    actRec,        \* getActiveOffers, called on its own: the restaurant
    actNow,        \*   the instant `now`
    actOut,        \*   the results of the calls made so far
    reqs,          \* requests in flight: the requests received, each with the
                   \*   point its handler has reached
    clockDate,     \* the calendar date (UTC) of the server's clock
    backups,       \* the files of backups/: date of the name -> content
    started,       \* the store as start() loaded it
    history,       \* the widget: its array `history`
    messages,      \*   the messages shown in #chat-messages
    inputValue,    \*   inputEl.value
    sendDisabled,  \*   sendBtn.disabled
    sends          \*   the calls of sendMessage that got to the fetch

vars == <<restaurants, storeIsNull, order, file, backup, last, nops,
          mergeOld, mergeNew, mergeOut, mergeHeldOld, mergeHeldNew,
          chatLog, actRec, actNow, actOut, reqs, clockDate, backups,
          started, history, messages, inputValue, sendDisabled, sends>>

asyncVars == <<reqs, clockDate, backups, started>>
storeVars == <<restaurants, storeIsNull, order, file, backup, last, nops,
               chatLog, asyncVars>>
mergeVars == <<mergeOld, mergeNew, mergeOut, mergeHeldOld, mergeHeldNew>>
offerVars == <<actRec, actNow, actOut>>
widgetVars == <<history, messages, inputValue, sendDisabled, sends>>

-----------------------------------------------------------------------------
(* JavaScript values *)

\* The value of a property that is missing: undefined.
Undefined == "<undefined>"

\* JSON null (an array element or a whole document that is null).
JNull == [jsonNull |-> TRUE]

IsNull(v) == "jsonNull" \in DOMAIN v

\* o.k : undefined when the property is missing.
Get(o, k) == IF k \in DOMAIN o THEN o[k] ELSE Undefined

\* The truthiness of a string-valued (or missing) property.
Truthy(v) == v # Undefined /\ v # ""

\* { ...a, ...b } : the properties of b win.
Spread(a, b) == b @@ a

\* delete o.k for the keys ks.
Delete(o, ks) == [k \in DOMAIN o \ ks |-> o[k]]

\* The object without any property.
EmptyObject == [k \in {} |-> TRUE]

\* String.prototype.toLowerCase on the names the model uses.
LowerTable ==
    [Pizza |-> "pizza", PIZZA |-> "pizza", Pasta |-> "pasta",
     Margherita |-> "margherita", MARGHERITA |-> "margherita",
     Penne |-> "penne", Marinara |-> "marinara"]

toLowerCase(s) == IF s \in DOMAIN LowerTable THEN LowerTable[s] ELSE s

\* x?.toLowerCase() : undefined when x is null or undefined.
OptLower(x) == IF x = Undefined THEN Undefined ELSE toLowerCase(x)

-----------------------------------------------------------------------------
(* mergeMenus(oldMenu, newMenu) *)

\* oldMenu.map((c) => ({ ...c, items: [...(c.items || [])] }))
CopyCategory(c) ==
    [items |-> IF "items" \in DOMAIN c THEN c.items ELSE <<>>] @@ c

\* i.name?.toLowerCase() === newItem.name?.toLowerCase()
SameItemName(i, newItem) ==
    OptLower(Get(i, "name")) = OptLower(Get(newItem, "name"))

\* c.category?.toLowerCase() === newCat.category?.toLowerCase()
SameCategoryName(c, newCat) ==
    OptLower(Get(c, "category")) = OptLower(Get(newCat, "category"))

\* existingCat.items.find(...) from position k on: the index of the first
\* match (0 when there is none).  Reading .name of a null element, or of a
\* null newItem, raises a TypeError as soon as the callback runs.
RECURSIVE FindItemFrom(_, _, _)
FindItemFrom(items, newItem, k) ==
    IF k > Len(items) THEN [threw |-> FALSE, idx |-> 0]
    ELSE IF IsNull(items[k]) \/ IsNull(newItem) THEN [threw |-> TRUE, idx |-> 0]
    ELSE IF SameItemName(items[k], newItem) THEN [threw |-> FALSE, idx |-> k]
    ELSE FindItemFrom(items, newItem, k + 1)

\* merged.find(...): the index of the first category of that name, or 0.
RECURSIVE FindCategoryFrom(_, _, _)
FindCategoryFrom(merged, newCat, k) ==
    IF k > Len(merged) THEN 0
    ELSE IF SameCategoryName(merged[k], newCat) THEN k
    ELSE FindCategoryFrom(merged, newCat, k + 1)

ItemFields == {"price", "notes", "image"}

\* UpdateItem with the `|| existingItem.f` forgotten: the incoming value is
\* always written.
UpdateItemOverwrite(existingItem, newItem) ==
    LET v(f) == Get(newItem, f)
        keep == {k \in DOMAIN existingItem \cup ItemFields :
                    k \notin ItemFields \/ v(k) # Undefined}
    IN [k \in keep |-> IF k \in ItemFields THEN v(k) ELSE existingItem[k]]

\* existingItem.f = newItem.f || existingItem.f, for f in price, notes, image
UpdateItem(existingItem, newItem) ==
    LET v(f) == IF Truthy(Get(newItem, f)) THEN Get(newItem, f)
                ELSE Get(existingItem, f)
        keep == {k \in DOMAIN existingItem \cup ItemFields :
                    k \notin ItemFields \/ v(k) # Undefined}
    IN [k \in keep |-> IF k \in ItemFields THEN v(k) ELSE existingItem[k]]

\* MergeItems putting an item that matches nothing in front of the items
\* of the category.
RECURSIVE MergeItemsInFront(_, _, _)
MergeItemsInFront(st, ci, newItems) ==
    IF st.threw \/ Len(newItems) = 0 THEN st
    ELSE LET items == st.merged[ci].items
             newItem == Head(newItems)
             f == FindItemFrom(items, newItem, 1)
         IN IF f.threw THEN [st EXCEPT !.threw = TRUE]
            ELSE MergeItemsInFront(
                   [st EXCEPT !.merged[ci].items =
                       IF f.idx = 0 THEN <<newItem>> \o items
                       ELSE [items EXCEPT
                               ![f.idx] = UpdateItem(items[f.idx], newItem)]],
                   ci, Tail(newItems))

\* for (const newItem of newCat.items || []) { ... } on merged[ci]
RECURSIVE MergeItems(_, _, _)
MergeItems(st, ci, newItems) ==
    IF st.threw \/ Len(newItems) = 0 THEN st
    ELSE LET items == st.merged[ci].items
             newItem == Head(newItems)
             f == FindItemFrom(items, newItem, 1)
         IN IF f.threw THEN [st EXCEPT !.threw = TRUE]
            ELSE MergeItems(
                   [st EXCEPT !.merged[ci].items =
                       IF f.idx = 0 THEN Append(items, newItem)
                       ELSE [items EXCEPT
                               ![f.idx] = UpdateItem(items[f.idx], newItem)]],
                   ci, Tail(newItems))

\* MergeCategory with the items of a category that matches nothing left
\* behind: the category is appended empty.
MergeCategoryNoItems(st, newCat) ==
    IF IsNull(newCat) THEN [st EXCEPT !.threw = TRUE]
    ELSE LET ci == FindCategoryFrom(st.merged, newCat, 1)
             newItems == IF "items" \in DOMAIN newCat THEN newCat.items
                         ELSE <<>>
         IN IF ci = 0
            THEN [st EXCEPT !.merged = Append(st.merged,
                     IF Get(newCat, "category") = Undefined
                     THEN [items |-> <<>>]
                     ELSE [category |-> newCat.category, items |-> <<>>])]
            ELSE MergeItems(st, ci, newItems)

\* The body of  for (const newCat of newMenu)  for one newCat: a category of
\* that name is looked up in merged; without one, { category, items } is
\* pushed (reading newCat.category of a null newCat raises a TypeError, in the
\* find callback or in the push), with one, its items are merged.
MergeCategory(st, newCat) ==
    IF IsNull(newCat) THEN [st EXCEPT !.threw = TRUE]
    ELSE LET ci == FindCategoryFrom(st.merged, newCat, 1)
             newItems == IF "items" \in DOMAIN newCat THEN newCat.items
                         ELSE <<>>
         IN IF ci = 0
            THEN [st EXCEPT !.merged = Append(st.merged,
                     IF Get(newCat, "category") = Undefined
                     THEN [items |-> newItems]
                     ELSE [category |-> newCat.category, items |-> newItems])]
            ELSE MergeItems(st, ci, newItems)

RECURSIVE MergeCategories(_, _)
MergeCategories(st, newMenu) ==
    IF st.threw \/ Len(newMenu) = 0 THEN st
    ELSE MergeCategories(MergeCategory(st, Head(newMenu)), Tail(newMenu))

\* mergeMenus: threw says that a TypeError was raised, merged is the array
\* `merged` at that point or at the return.
mergeMenus(oldMenu, newMenu) ==
    IF \E c \in 1..Len(oldMenu) : IsNull(oldMenu[c])
    THEN [threw |-> TRUE, merged |-> <<>>, copied |-> FALSE]
    ELSE MergeCategories(
           [threw |-> FALSE, copied |-> TRUE,
            merged |-> [c \in 1..Len(oldMenu) |-> CopyCategory(oldMenu[c])]],
           newMenu)

\* What oldMenu holds after the call.  The copy made of oldMenu has new
\* category objects and new items arrays, but the item objects themselves are
\* shared: merged[c].items[i] is the same object as oldMenu[c].items[i], so an
\* update of a matched item is an update of the item of oldMenu.
OldMenuAfter(oldMenu, st) ==
    IF ~st.copied THEN oldMenu
    ELSE [c \in 1..Len(oldMenu) |->
            IF "items" \in DOMAIN oldMenu[c]
            THEN [oldMenu[c] EXCEPT !.items =
                    [i \in 1..Len(oldMenu[c].items) |-> st.merged[c].items[i]]]
            ELSE oldMenu[c]]

\* Item objects are told apart by a reference carried in a property `ref`
\* that mergeMenus neither reads nor writes: item i of category c of the
\* menu passed as newMenu.
Ref(c, i) == [c |-> c, i |-> i]

WithRefs(menu) ==
    [c \in 1..Len(menu) |->
        IF IsNull(menu[c]) \/ "items" \notin DOMAIN menu[c] THEN menu[c]
        ELSE [menu[c] EXCEPT !.items =
                [i \in 1..Len(menu[c].items) |->
                    IF IsNull(menu[c].items[i]) THEN menu[c].items[i]
                    ELSE menu[c].items[i] @@ [ref |-> Ref(c, i)]]]]

WithoutRef(item) ==
    IF IsNull(item) THEN item ELSE Delete(item, {"ref"})

WithoutRefs(menu) ==
    [c \in 1..Len(menu) |->
        IF IsNull(menu[c]) \/ "items" \notin DOMAIN menu[c] THEN menu[c]
        ELSE [menu[c] EXCEPT !.items =
                [i \in 1..Len(menu[c].items) |->
                    WithoutRef(menu[c].items[i])]]]

\* The item objects of `merged` that carry a reference.
ItemsWithRef(merged) ==
    UNION {{merged[c].items[i] : i \in 1..Len(merged[c].items)} \ {JNull} :
             c \in 1..Len(merged)}

\* What the item object x holds once merged has been built: an object that
\* was put into merged (it is one of `held`) holds what merged shows for it.
HeldItem(x, held) ==
    IF IsNull(x) \/ "ref" \notin DOMAIN x THEN x
    ELSE LET at == {y \in held : "ref" \in DOMAIN y /\ y.ref = x.ref}
         IN IF at = {} THEN x ELSE CHOOSE y \in at : TRUE

\* The categories of newMenu that find no category of their name in merged
\* when their turn comes: none in oldMenu and none earlier in newMenu.
PushedCategories(oldMenu, newMenu) ==
    {j \in 1..Len(newMenu) :
        /\ ~IsNull(newMenu[j])
        /\ \A c \in 1..Len(oldMenu) : ~SameCategoryName(oldMenu[c], newMenu[j])
        /\ \A k \in 1..(j - 1) : ~SameCategoryName(newMenu[k], newMenu[j])}

\* merged.push({ category: newCat.category, items: newCat.items || [] }):
\* the position in merged of the category whose items array IS the array
\* newMenu[j].items, or 0 when newMenu[j].items is in no category of merged
\* (the loop stopped before j, j found a category, or j has no items).
AliasedAt(pushed, oldMenu, newMenu, st, j) ==
    LET rank == Cardinality({k \in pushed : k <= j})
    IN IF /\ st.copied
          /\ j \in pushed
          /\ "items" \in DOMAIN newMenu[j]
          /\ Len(oldMenu) + rank <= Len(st.merged)
       THEN Len(oldMenu) + rank
       ELSE 0

\* What newMenu holds after the call mergeMenus(oldMenu, newMenu) that
\* ended as st (newMenu with references).  A pushed category shares its
\* items array with newMenu, so the items pushed to it later are pushed to
\* newMenu[j].items, and the items taken from newMenu are the item objects
\* of newMenu, so an update of one of them in merged is an update of it
\* in newMenu.
NewMenuAfter(oldMenu, newMenu, st) ==
    LET pushed == PushedCategories(oldMenu, newMenu)
        held == ItemsWithRef(st.merged)
    IN [j \in 1..Len(newMenu) |->
          IF IsNull(newMenu[j]) \/ "items" \notin DOMAIN newMenu[j]
          THEN newMenu[j]
          ELSE [newMenu[j] EXCEPT !.items =
                  LET p == AliasedAt(pushed, oldMenu, newMenu, st, j)
                  IN IF p # 0 THEN st.merged[p].items
                     ELSE [i \in 1..Len(newMenu[j].items) |->
                             HeldItem(newMenu[j].items[i], held)]]]

-----------------------------------------------------------------------------
(* Persistence: restaurants.json and loadRestaurants / saveRestaurants *)

\* A request body or response body holds JSON of any type where the code
\* asks Array.isArray: an array is Arr(seq), anything else NotArray.
Arr(s) == [arr |-> s]
NotArray == [str |-> "soup"]
IsArray(v) == "arr" \in DOMAIN v

\* File contents: no file, text that is not JSON, or a JSON document.
FileMissing == [kind |-> "missing"]
FileInvalid == [kind |-> "invalid"]
DocObject(keys, map) == [kind |-> "json", t |-> "object", keys |-> keys, map |-> map]
DocArray(elems) == [kind |-> "json", t |-> "array", elems |-> elems]
DocNull == [kind |-> "json", t |-> "null"]
DocNumber == [kind |-> "json", t |-> "number"]

\* JSON.stringify(restaurants, null, 2)
Stringify(isNull, keys, map) ==
    IF isNull THEN DocNull ELSE DocObject(keys, map)

\* r && r.id
HasTruthyId(r) == ~IsNull(r) /\ Truthy(Get(r, "id"))

\* IndexById keeping the first of the elements that share an id.
RECURSIVE IndexByIdFirstWins(_, _)
IndexByIdFirstWins(acc, elems) ==
    IF Len(elems) = 0 THEN acc
    ELSE LET r == Head(elems)
         IN IndexByIdFirstWins(
              IF HasTruthyId(r) /\ r.id \notin DOMAIN acc.map
              THEN [keys |-> Append(acc.keys, r.id),
                    map |-> (r.id :> r) @@ acc.map]
              ELSE acc,
              Tail(elems))

\* const obj = {}; for (const r of parsed) { if (r && r.id) obj[r.id] = r; }
RECURSIVE IndexById(_, _)
IndexById(acc, elems) ==
    IF Len(elems) = 0 THEN acc
    ELSE LET r == Head(elems)
         IN IndexById(
              IF HasTruthyId(r)
              THEN [keys |-> IF r.id \in DOMAIN acc.map THEN acc.keys
                             ELSE Append(acc.keys, r.id),
                    map |-> (r.id :> r) @@ acc.map]
              ELSE acc,
              Tail(elems))

EmptyStore == [isNull |-> FALSE, keys |-> <<>>, map |-> EmptyObject]

\* loadRestaurants(): readFile raises on a missing file and JSON.parse on
\* invalid text (both caught: {}); a non-array of type "object" is returned
\* as parsed, and typeof null is "object" too; an array is indexed by id;
\* any other JSON value gives {}.
loadRestaurants(f) ==
    IF f.kind # "json" THEN EmptyStore
    ELSE IF f.t = "object"
         THEN [isNull |-> FALSE, keys |-> f.keys, map |-> f.map]
    ELSE IF f.t = "null"
         THEN [isNull |-> TRUE, keys |-> <<>>, map |-> EmptyObject]
    ELSE IF f.t = "array"
         THEN LET idx == IndexById([keys |-> <<>>, map |-> EmptyObject], f.elems)
              IN [isNull |-> FALSE, keys |-> idx.keys, map |-> idx.map]
    ELSE EmptyStore

\* The outcomes of saveRestaurants: both files written; the write of
\* restaurants.json fails (caught, logged, no backup attempted); only the
\* write of the backup fails (caught, logged).
SaveOutcomes == {"saved", "mainFailed", "backupFailed"}

\* saveRestaurants(data): what the two files hold afterwards.
saveRestaurants(outcome, json, oldFile, oldBackup) ==
    [file |-> IF outcome = "mainFailed" THEN oldFile ELSE json,
     backup |-> IF outcome = "saved" THEN json ELSE oldBackup]

-----------------------------------------------------------------------------
(* POST /restaurants/:id *)

\* the flag is present and true
TruthyFlag(data, k) == k \in DOMAIN data /\ data[k] = TRUE

ControlFlags == {"replace", "replaceOffers"}

\* { id, menu: [], offers: [], faq: [] }
DefaultRecord(id) == [id |-> id, menu |-> <<>>, offers |-> <<>>, faq |-> <<>>]

\* existing.offers || []
OffersOrEmpty(r) == IF "offers" \in DOMAIN r THEN r.offers ELSE <<>>

\* existing.menu || []
MenuOrEmpty(r) == IF "menu" \in DOMAIN r THEN r.menu ELSE <<>>

\* FinalMenu taking a truthy replace flag without a menu array for an order
\* to clear the menu.
FinalMenuClearing(existing, data) ==
    IF "menu" \in DOMAIN data /\ IsArray(data.menu)
    THEN IF TruthyFlag(data, "replace")
         THEN [threw |-> FALSE, has |-> TRUE, menu |-> data.menu.arr]
         ELSE LET m == mergeMenus(MenuOrEmpty(existing), data.menu.arr)
              IN IF m.threw
                 THEN [threw |-> TRUE, has |-> "menu" \in DOMAIN existing,
                       menu |-> OldMenuAfter(MenuOrEmpty(existing), m)]
                 ELSE [threw |-> FALSE, has |-> TRUE, menu |-> m.merged]
    ELSE IF TruthyFlag(data, "replace")
         THEN [threw |-> FALSE, has |-> TRUE, menu |-> <<>>]
         ELSE [threw |-> FALSE, has |-> "menu" \in DOMAIN existing,
               menu |-> MenuOrEmpty(existing)]

\* FinalMenu with the two branches of `if (data.replace)` exchanged.
FinalMenuSwapped(existing, data) ==
    IF "menu" \in DOMAIN data /\ IsArray(data.menu)
    THEN IF ~TruthyFlag(data, "replace")
         THEN [threw |-> FALSE, has |-> TRUE, menu |-> data.menu.arr]
         ELSE LET m == mergeMenus(MenuOrEmpty(existing), data.menu.arr)
              IN IF m.threw
                 THEN [threw |-> TRUE, has |-> "menu" \in DOMAIN existing,
                       menu |-> OldMenuAfter(MenuOrEmpty(existing), m)]
                 ELSE [threw |-> FALSE, has |-> TRUE, menu |-> m.merged]
    ELSE [threw |-> FALSE, has |-> "menu" \in DOMAIN existing,
          menu |-> MenuOrEmpty(existing)]

\* The menu part of the handler: finalMenu (has says that it is defined), or
\* the TypeError of mergeMenus together with what the items of existing.menu
\* hold by then.
FinalMenu(existing, data) ==
    IF "menu" \in DOMAIN data /\ IsArray(data.menu)
    THEN IF TruthyFlag(data, "replace")
         THEN [threw |-> FALSE, has |-> TRUE, menu |-> data.menu.arr]
         ELSE LET m == mergeMenus(MenuOrEmpty(existing), data.menu.arr)
              IN IF m.threw
                 THEN [threw |-> TRUE, has |-> "menu" \in DOMAIN existing,
                       menu |-> OldMenuAfter(MenuOrEmpty(existing), m)]
                 ELSE [threw |-> FALSE, has |-> TRUE, menu |-> m.merged]
    ELSE [threw |-> FALSE, has |-> "menu" \in DOMAIN existing,
          menu |-> MenuOrEmpty(existing)]

\* FinalOffers leaving out the offers the record already holds.
FinalOffersDeduplicating(existing, data) ==
    IF "offers" \in DOMAIN data /\ IsArray(data.offers)
    THEN IF TruthyFlag(data, "replaceOffers")
         THEN data.offers.arr
         ELSE OffersOrEmpty(existing)
                \o SelectSeq(data.offers.arr,
                      LAMBDA o : \A i \in 1..Len(OffersOrEmpty(existing)) :
                                    OffersOrEmpty(existing)[i] # o)
    ELSE OffersOrEmpty(existing)

\* The offers part of the handler: finalOffers.
FinalOffers(existing, data) ==
    IF "offers" \in DOMAIN data /\ IsArray(data.offers)
    THEN IF TruthyFlag(data, "replaceOffers")
         THEN data.offers.arr
         ELSE OffersOrEmpty(existing) \o data.offers.arr
    ELSE OffersOrEmpty(existing)

\* const updated = { ...existing, ...data, id, menu: finalMenu,
\*                   offers: finalOffers };
\* delete updated.replace; delete updated.replaceOffers;
UpdatedRecord(existing, data, id, fm, finalOffers) ==
    LET rest == Delete(Spread(existing, data),
                       {"id", "menu", "offers"} \cup ControlFlags)
    IN rest @@ [id |-> id, offers |-> finalOffers]
            @@ (IF fm.has THEN [menu |-> fm.menu] ELSE EmptyObject)

\* The handler answering an error when the save failed.
UpsertResponseFailing(updated, outcome) ==
    IF outcome = "mainFailed"
    THEN [status |-> 500, body |-> [error |-> "Failed to save"]]
    ELSE [status |-> 200, body |-> updated]

\* await saveRestaurants(restaurants); res.json(updated);  saveRestaurants
\* catches its own errors, so the handler answers the same way either way.
UpsertResponse(updated, outcome) == [status |-> 200, body |-> updated]

\* The handler, for the request  POST /restaurants/<id>  with body `data`,
\* and saveRestaurants ending as `outcome`.
Upsert(id, data, outcome) ==
    /\ nops' = nops + 1
    /\ IF storeIsNull
       THEN \* restaurants[id] on null: a TypeError, the request gets no answer
            /\ last' = [op |-> "upsert", id |-> id, data |-> data,
                        status |-> "threw"]
            /\ UNCHANGED <<restaurants, storeIsNull, order, file, backup>>
       ELSE LET existing == IF id \in DOMAIN restaurants THEN restaurants[id]
                            ELSE DefaultRecord(id)
                fm == FinalMenu(existing, data)
                updated == UpdatedRecord(existing, data, id, fm,
                                         FinalOffers(existing, data))
                newMap == (id :> updated) @@ restaurants
                newOrder == IF id \in DOMAIN restaurants THEN order
                            ELSE Append(order, id)
                saved == saveRestaurants(outcome,
                             Stringify(FALSE, newOrder, newMap), file, backup)
            IN IF fm.threw
               THEN \* mergeMenus raised: nothing is assigned, saved or
                    \* answered, but the items it had updated by then are the
                    \* items of the stored record
                    /\ restaurants' =
                         IF id \in DOMAIN restaurants /\ fm.has
                         THEN [restaurants EXCEPT ![id].menu = fm.menu]
                         ELSE restaurants
                    /\ last' = [op |-> "upsert", id |-> id, data |-> data,
                                status |-> "threw"]
                    /\ UNCHANGED <<storeIsNull, order, file, backup>>
               ELSE /\ restaurants' = newMap
                    /\ order' = newOrder
                    /\ file' = saved.file
                    /\ backup' = saved.backup
                    /\ last' = [op |-> "upsert", id |-> id, data |-> data,
                                status |-> "answered", save |-> outcome,
                                response |-> UpsertResponse(updated, outcome)]
                    /\ UNCHANGED storeIsNull

-----------------------------------------------------------------------------
(* POST /admin/rescan-all *)

\* The answer of one internal import request: fetch or resp.json() raised,
\* or the body of the answer.
FetchThrew == [threw |-> TRUE]
NoFetch == [skipped |-> TRUE]
Threw(x) == "threw" \in DOMAIN x

\* if (!data.error && data.metadata) Object.assign(updates, data.metadata)
MetaUpdates(x) ==
    IF ~Threw(x) /\ "error" \notin DOMAIN x /\ "metadata" \in DOMAIN x
    THEN x.metadata ELSE EmptyObject

\* if (!data.error && Array.isArray(data.menu)) {
\*   updates.menu = data.menu; updates.replace = true; }
MenuUpdates(x) ==
    IF ~Threw(x) /\ "error" \notin DOMAIN x /\ "menu" \in DOMAIN x
       /\ IsArray(x.menu)
    THEN [menu |-> x.menu.arr, replace |-> TRUE] ELSE EmptyObject

\* if (!data.error && Array.isArray(data.offers)) {
\*   updates.offers = data.offers; updates.replaceOffers = true; }
OffersUpdates(x) ==
    IF ~Threw(x) /\ "error" \notin DOMAIN x /\ "offers" \in DOMAIN x
       /\ IsArray(x.offers)
    THEN [offers |-> x.offers.arr, replaceOffers |-> TRUE] ELSE EmptyObject

\* The updates collected for record r from the answers x of its three
\* requests (a request is made only for a source URL that is set).
UpdatesFor(r, x) ==
    LET meta == IF Truthy(Get(r, "metaSourceUrl")) THEN MetaUpdates(x.meta)
                ELSE EmptyObject
        menu == IF Truthy(Get(r, "menuSourceUrl")) THEN MenuUpdates(x.menu)
                ELSE EmptyObject
        offers == IF Truthy(Get(r, "offersSourceUrl"))
                  THEN OffersUpdates(x.offers) ELSE EmptyObject
    IN Spread(Spread(meta, menu), offers)

\* The property name that restaurants[id] uses for id.
KeyOf(id) == IF id = Undefined THEN "undefined" ELSE id

\* RescanWrite storing the updates alone, without the fields the record
\* has by then.
RescanWriteUpdatesOnly(cur, id, updates) ==
    LET key == KeyOf(id)
    IN IF DOMAIN updates = {} THEN cur
       ELSE [cur EXCEPT
               !.keys = IF key \in DOMAIN cur.map THEN cur.keys
                        ELSE Append(cur.keys, key),
               !.map = (key :> updates) @@ cur.map]

\* if (Object.keys(updates).length > 0) {
\*   restaurants[id] = { ...restaurants[id], ...updates }; }
RescanWrite(cur, id, updates) ==
    LET key == KeyOf(id)
        old == IF key \in DOMAIN cur.map THEN cur.map[key] ELSE EmptyObject
    IN IF DOMAIN updates = {} THEN cur
       ELSE [cur EXCEPT
               !.keys = IF key \in DOMAIN cur.map THEN cur.keys
                        ELSE Append(cur.keys, key),
               !.map = (key :> Spread(old, updates)) @@ cur.map]

\* RescanFrom reporting updated only when the record it wrote differs from
\* the record that was stored.
RECURSIVE RescanFromComparing(_, _, _, _)
RescanFromComparing(cur, values, answers, k) ==
    IF k > Len(values) THEN cur
    ELSE LET r == values[k]
             id == Get(r, "id")
             updates == UpdatesFor(r, answers[k])
             written == RescanWrite(cur, id, updates)
         IN RescanFromComparing(
              [written EXCEPT !.results =
                  Append(@, [id |-> id, updated |-> written.map # cur.map])],
              values, answers, k + 1)

\* for (const r of Object.values(restaurants)) { ... } from record k on:
\* values is the array Object.values returned, answers[k] the answers of the
\* requests made for values[k].
RECURSIVE RescanFrom(_, _, _, _)
RescanFrom(cur, values, answers, k) ==
    IF k > Len(values) THEN cur
    ELSE LET r == values[k]
             id == Get(r, "id")
             updates == UpdatesFor(r, answers[k])
             written == RescanWrite(cur, id, updates)
         IN RescanFrom(
              [written EXCEPT !.results =
                  Append(@, [id |-> id, updated |-> DOMAIN updates # {}])],
              values, answers, k + 1)

\* The handler, with the answers of the internal requests and the outcome of
\* the one saveRestaurants at its end.
RescanAll(answers, outcome) ==
    /\ nops' = nops + 1
    /\ IF storeIsNull
       THEN \* Object.values(null) raises, the catch answers 500
            /\ last' = [op |-> "rescan", status |-> "answered",
                        response |-> [status |-> 500,
                                      body |-> [error |-> "Rescan failed"]]]
            /\ UNCHANGED <<restaurants, storeIsNull, order, file, backup>>
       ELSE LET values == [k \in 1..Len(order) |-> restaurants[order[k]]]
                done == RescanFrom([keys |-> order, map |-> restaurants,
                                    results |-> <<>>], values, answers, 1)
                saved == saveRestaurants(outcome,
                             Stringify(FALSE, done.keys, done.map), file, backup)
            IN /\ restaurants' = done.map
               /\ order' = done.keys
               /\ file' = saved.file
               /\ backup' = saved.backup
               /\ last' = [op |-> "rescan", status |-> "answered",
                           save |-> outcome, answers |-> answers,
                           response |-> [status |-> 200,
                                         body |-> [ok |-> TRUE,
                                                   results |-> done.results]]]
               /\ UNCHANGED storeIsNull

-----------------------------------------------------------------------------
(* Offers: offerIsActive and getActiveOffers *)

\* The text of a date or of a time of day is the sequence of its characters.
\* CharCode is the code unit of a character, which is what < and > compare
\* on strings.
CharCode ==
    ("-" :> 45) @@ ("0" :> 48) @@ ("1" :> 49) @@ ("2" :> 50) @@ ("3" :> 51)
    @@ ("4" :> 52) @@ ("5" :> 53) @@ ("6" :> 54) @@ ("7" :> 55)
    @@ ("8" :> 56) @@ ("9" :> 57) @@ (":" :> 58) @@ ("m" :> 109)
    @@ ("p" :> 112)

DigitChars == {"0", "1", "2", "3", "4", "5", "6", "7", "8", "9"}

\* a < b on strings: the first differing code unit decides, and a proper
\* prefix is the smaller.
RECURSIVE StrLess(_, _)
StrLess(a, b) ==
    IF Len(b) = 0 THEN FALSE
    ELSE IF Len(a) = 0 THEN TRUE
    ELSE IF CharCode[Head(a)] # CharCode[Head(b)]
         THEN CharCode[Head(a)] < CharCode[Head(b)]
    ELSE StrLess(Tail(a), Tail(b))

\* s.split(sep)
RECURSIVE Split(_, _)
Split(s, sep) ==
    IF \A i \in 1..Len(s) : s[i] # sep THEN <<s>>
    ELSE LET i == CHOOSE j \in 1..Len(s) :
                     s[j] = sep /\ \A h \in 1..(j - 1) : s[h] # sep
         IN <<SubSeq(s, 1, i - 1)>> \o Split(SubSeq(s, i + 1, Len(s)), sep)

\* A JavaScript number: NaN, or the integer n.
NaN == [nan |-> TRUE]
Num(n) == [n |-> n]
IsNaN(v) == "nan" \in DOMAIN v

RECURSIVE DigitsValue(_)
DigitsValue(s) ==
    IF Len(s) = 0 THEN 0
    ELSE DigitsValue(SubSeq(s, 1, Len(s) - 1)) * 10
           + (CharCode[s[Len(s)]] - 48)

IsDigits(s) == Len(s) > 0 /\ \A i \in 1..Len(s) : s[i] \in DigitChars

\* Number(s) for a text of the characters above: 0 for the empty text, the
\* value of a decimal numeral with an optional minus sign, NaN otherwise.
Number(s) ==
    IF Len(s) = 0 THEN Num(0)
    ELSE IF IsDigits(s) THEN Num(DigitsValue(s))
    ELSE IF Head(s) = "-" /\ IsDigits(Tail(s)) THEN Num(0 - DigitsValue(Tail(s)))
    ELSE NaN

\* const [h, m] = text.split(":").map(Number);  h * 60 + m
\* (m is undefined when the text has no colon, and the sum is then NaN)
Minutes(text) ==
    LET parts == Split(text, ":")
    IN IF Len(parts) < 2 THEN NaN
       ELSE LET h == Number(parts[1])
                m == Number(parts[2])
            IN IF IsNaN(h) \/ IsNaN(m) THEN NaN ELSE Num(h.n * 60 + m.n)

\* a < b on numbers: false when either is NaN.
NumLess(a, b) == ~IsNaN(a) /\ ~IsNaN(b) /\ a.n < b.n

\* offer.k is a text that is truthy (present and not empty).
HasText(o, k) == k \in DOMAIN o /\ Len(o[k]) > 0

\* "00:00" and "23:59"
DefaultStartTime == <<"0", "0", ":", "0", "0">>
DefaultEndTime == <<"2", "3", ":", "5", "9">>

\* An instant `now` is given by what offerIsActive reads of it:
\*   today   now.toISOString().slice(0, 10)
\*   day     now.getDay()
\*   hours   now.getHours()
\*   minutes now.getMinutes()

\* The date check with its two comparisons pointing the other way.
DateWindowOkReversed(offer, today) ==
    /\ ~(HasText(offer, "startDate") /\ StrLess(offer.startDate, today))
    /\ ~(HasText(offer, "endDate") /\ StrLess(today, offer.endDate))

\* if (offer.startDate && today < offer.startDate) return false;
\* if (offer.endDate && today > offer.endDate) return false;
DateWindowOk(offer, today) ==
    /\ ~(HasText(offer, "startDate") /\ StrLess(today, offer.startDate))
    /\ ~(HasText(offer, "endDate") /\ StrLess(offer.endDate, today))

\* The weekday check without the test of the array's length.
DaysOkNoLengthTest(offer, dayOfWeek) ==
    ~(/\ "daysOfWeek" \in DOMAIN offer
      /\ IsArray(offer.daysOfWeek)
      /\ \A i \in 1..Len(offer.daysOfWeek.arr) :
            offer.daysOfWeek.arr[i] # dayOfWeek)

\* if (Array.isArray(offer.daysOfWeek) && offer.daysOfWeek.length > 0) {
\*   if (!offer.daysOfWeek.includes(dayOfWeek)) return false; }
DaysOk(offer, dayOfWeek) ==
    ~(/\ "daysOfWeek" \in DOMAIN offer
      /\ IsArray(offer.daysOfWeek)
      /\ Len(offer.daysOfWeek.arr) > 0
      /\ \A i \in 1..Len(offer.daysOfWeek.arr) :
            offer.daysOfWeek.arr[i] # dayOfWeek)

\* The time check with the end of the window excluded.
TimeWindowOkEndExcluded(offer, now) ==
    IF HasText(offer, "startTime") \/ HasText(offer, "endTime")
    THEN LET startMinutes ==
                 Minutes(IF HasText(offer, "startTime") THEN offer.startTime
                         ELSE DefaultStartTime)
             endMinutes ==
                 Minutes(IF HasText(offer, "endTime") THEN offer.endTime
                         ELSE DefaultEndTime)
             nowMinutes == Num(now.hours * 60 + now.minutes)
         IN ~(\/ NumLess(nowMinutes, startMinutes)
              \/ ~NumLess(nowMinutes, endMinutes))
    ELSE TRUE

\* if (offer.startTime || offer.endTime) { ...
\*   if (nowMinutes < startMinutes || nowMinutes > endMinutes) return false; }
TimeWindowOk(offer, now) ==
    IF HasText(offer, "startTime") \/ HasText(offer, "endTime")
    THEN LET startMinutes ==
                 Minutes(IF HasText(offer, "startTime") THEN offer.startTime
                         ELSE DefaultStartTime)
             endMinutes ==
                 Minutes(IF HasText(offer, "endTime") THEN offer.endTime
                         ELSE DefaultEndTime)
             nowMinutes == Num(now.hours * 60 + now.minutes)
         IN ~(\/ NumLess(nowMinutes, startMinutes)
              \/ NumLess(endMinutes, nowMinutes))
    ELSE TRUE

\* offerIsActive(offer, now): a TypeError when offer is null (offer.startDate),
\* else the three checks in turn.
offerIsActive(offer, now) ==
    IF IsNull(offer) THEN [threw |-> TRUE]
    ELSE [threw |-> FALSE,
          value |-> /\ DateWindowOk(offer, now.today)
                    /\ DaysOk(offer, now.day)
                    /\ TimeWindowOk(offer, now)]

\* offers.filter((o) => offerIsActive(o, now)) from element k on, acc being
\* the elements kept so far.
RECURSIVE FilterActive(_, _, _, _)
FilterActive(offers, now, k, acc) ==
    IF k > Len(offers) THEN [threw |-> FALSE, value |-> acc]
    ELSE LET a == offerIsActive(offers[k], now)
         IN IF a.threw THEN [threw |-> TRUE]
            ELSE FilterActive(offers, now, k + 1,
                              IF a.value THEN Append(acc, offers[k]) ELSE acc)

\* getActiveOffers keeping the offers in the order the filter reached them
\* last first.
getActiveOffersReversed(restaurant, now) ==
    IF "offers" \notin DOMAIN restaurant \/ ~IsArray(restaurant.offers)
    THEN [threw |-> FALSE, value |-> <<>>]
    ELSE LET f == FilterActive(restaurant.offers.arr, now, 1, <<>>)
         IN IF f.threw THEN f
            ELSE [threw |-> FALSE,
                  value |-> [i \in 1..Len(f.value) |->
                                f.value[Len(f.value) + 1 - i]]]

\* getActiveOffers(restaurant, now); the offers of the restaurant are
\* Arr(sequence) when they are an array.
getActiveOffers(restaurant, now) ==
    IF "offers" \notin DOMAIN restaurant \/ ~IsArray(restaurant.offers)
    THEN [threw |-> FALSE, value |-> <<>>]
    ELSE FilterActive(restaurant.offers.arr, now, 1, <<>>)

\* const activeOffers = getActiveOffers(restaurant);
\* const context = JSON.stringify({ ...restaurant, activeOffers }, null, 2);
BuildContext(restaurant, now) ==
    LET active == getActiveOffers(restaurant, now)
    IN IF active.threw THEN [threw |-> TRUE]
       ELSE [threw |-> FALSE,
             activeOffers |-> active.value,
             context |-> Spread(restaurant, [activeOffers |-> active.value])]

-----------------------------------------------------------------------------
(* POST /chat *)

\* The names every object inherits from Object.prototype: restaurants[name]
\* is a function or an object, not undefined, when the map has no property
\* of that name of its own.
InheritedNames == {"constructor", "toString", "__proto__"}

\* restaurants[restaurantId]: the map's own property, else an inherited one
\* (which has none of the properties the handler reads and no enumerable
\* property of its own), else undefined.  A missing restaurantId reads the
\* property "undefined".
Lookup(map, restaurantId) ==
    LET key == KeyOf(restaurantId)
    IN IF key \in DOMAIN map THEN [found |-> TRUE, value |-> map[key]]
       ELSE IF key \in InheritedNames
            THEN [found |-> TRUE, value |-> EmptyObject]
       ELSE [found |-> FALSE]

\* A stored record as getActiveOffers takes it: the offers of every record
\* the store of the model holds are an array.
WithArrayOffers(r) ==
    IF "offers" \in DOMAIN r THEN [r EXCEPT !.offers = Arr(@)] ELSE r

\* "Sorry, I'm having trouble answering right now."
SorryText == "Sorry, I'm having trouble answering right now."

\* restaurant.googleMapsUrl ||
\*   (restaurant.orderingLinks && restaurant.orderingLinks[0]?.url) || ""
SiteOf(restaurant) ==
    IF Truthy(Get(restaurant, "googleMapsUrl")) THEN restaurant.googleMapsUrl
    ELSE IF /\ "orderingLinks" \in DOMAIN restaurant
            /\ Len(restaurant.orderingLinks) > 0
            /\ ~IsNull(restaurant.orderingLinks[1])
            /\ Truthy(Get(restaurant.orderingLinks[1], "url"))
         THEN restaurant.orderingLinks[1].url
    ELSE ""

\* restaurant.phone || ""
PhoneOf(restaurant) ==
    IF Truthy(Get(restaurant, "phone")) THEN restaurant.phone ELSE ""

\* ChatFallback testing the phone before the pair of phone and site.
ChatFallbackPhoneFirst(hasRestaurant, restaurant) ==
    LET phone == IF hasRestaurant THEN PhoneOf(restaurant) ELSE ""
        site == IF hasRestaurant THEN SiteOf(restaurant) ELSE ""
    IN <<SorryText>> \o
       (IF phone # ""
        THEN <<" You can call the restaurant at ", phone, ".">>
        ELSE IF phone # "" /\ site # ""
        THEN <<" You can call us at ", phone, " or visit ", site, ".">>
        ELSE IF site # ""
        THEN <<" You can visit our website here: ", site, ".">>
        ELSE <<>>)

\* The fallback reply of the catch block, as the pieces of text it is made
\* of; restaurant is undefined when the error came before it was found.
ChatFallback(hasRestaurant, restaurant) ==
    LET phone == IF hasRestaurant THEN PhoneOf(restaurant) ELSE ""
        site == IF hasRestaurant THEN SiteOf(restaurant) ELSE ""
    IN <<SorryText>> \o
       (IF phone # "" /\ site # ""
        THEN <<" You can call us at ", phone, " or visit ", site, ".">>
        ELSE IF phone # ""
        THEN <<" You can call the restaurant at ", phone, ".">>
        ELSE IF site # ""
        THEN <<" You can visit our website here: ", site, ".">>
        ELSE <<>>)

\* res.status(200).json({ reply: fallback, error: "Chat failed internally" })
FallbackResponse(hasRestaurant, restaurant) ==
    [status |-> 200,
     body |-> [reply |-> ChatFallback(hasRestaurant, restaurant),
               error |-> "Chat failed internally"]]

\* A history that cannot be spread into the messages (a number).
BadHistory == [num |-> 5]

\* What openai.chat.completions.create gives: a completion with a reply, a
\* rejection, or a completion without choices.
CompletionOutcomes == {"reply", "failed", "noChoices"}

ReplyText == <<"At Roma, we have a happy hour.">>

\* The line appendChatLog writes (without ts and ip).
ChatLogEntry(body, restaurant, replyText, activeOffers) ==
    [restaurantId |-> Get(body, "restaurantId"),
     userMessage |-> Get(body, "message"),
     reply |-> replyText,
     activeOffersCount |-> Len(activeOffers),
     hasMenu |-> "menu" \in DOMAIN restaurant /\ Len(restaurant.menu) > 0,
     hasOffers |-> "offers" \in DOMAIN restaurant
                     /\ Len(restaurant.offers) > 0]

\* The handler, for the request body `body` served at the instant `now`,
\* the completion ending as `completion` and appendFile as `logged`.
\* last.called says whether the completion was requested.
Chat(body, now, completion, logged) ==
    LET request == [op |-> "chat", body |-> body, now |-> now]
        found == Lookup(restaurants, Get(body, "restaurantId"))
        restaurant == found.value
        built == BuildContext(WithArrayOffers(restaurant), now)
        badHistory == "history" \in DOMAIN body /\ ~IsArray(body.history)
    IN /\ nops' = nops + 1
       /\ UNCHANGED <<restaurants, storeIsNull, order, file, backup>>
       /\ IF storeIsNull
          THEN \* restaurants[restaurantId] on null raises; restaurant is
               \* still undefined in the catch block
               /\ last' = request @@
                     [called |-> FALSE,
                      response |-> FallbackResponse(FALSE, EmptyObject)]
               /\ chatLog' = chatLog
          ELSE IF ~found.found
          THEN /\ last' = request @@
                     [called |-> FALSE,
                      response |-> [status |-> 404,
                                    body |-> [error |->
                                                "Restaurant not found"]]]
               /\ chatLog' = chatLog
          ELSE IF built.threw \/ badHistory
          THEN \* getActiveOffers raised, or the spread of history did
               /\ last' = request @@
                     [called |-> FALSE,
                      response |-> FallbackResponse(TRUE, restaurant)]
               /\ chatLog' = chatLog
          ELSE IF completion # "reply"
          THEN /\ last' = request @@
                     [called |-> TRUE, context |-> built.context,
                      completion |-> completion,
                      response |-> FallbackResponse(TRUE, restaurant)]
               /\ chatLog' = chatLog
          ELSE /\ last' = request @@
                     [called |-> TRUE, context |-> built.context,
                      completion |-> completion, logged |-> logged,
                      response |-> [status |-> 200,
                                    body |-> [reply |-> ReplyText]]]
               /\ chatLog' =
                     IF logged
                     THEN Append(chatLog,
                                 ChatLogEntry(body, restaurant, ReplyText,
                                              built.activeOffers))
                     ELSE chatLog

-----------------------------------------------------------------------------
(* mergeMenus called on its own, on menus built from a pool of categories *)

MaxCats == 2

CatPizza ==
    [category |-> "Pizza",
     items |-> <<[name |-> "Margherita", price |-> "$10"]>>]

CatPizzaLower ==
    [category |-> "pizza",
     items |-> <<[name |-> "margherita", price |-> "", notes |-> "Classic"]>>]

\* two items of one category whose names differ only in case
CatPizzaTwice ==
    [category |-> "PIZZA",
     items |-> <<[name |-> "Margherita", price |-> "$12"],
                 [name |-> "MARGHERITA", price |-> "$9", image |-> "m.png"]>>]

CatPasta ==
    [category |-> "Pasta", items |-> <<[name |-> "Penne", price |-> "$8"]>>]

\* an item that is new to Pizza before one that Pizza has
CatPizzaMore ==
    [category |-> "PIZZA",
     items |-> <<[name |-> "Marinara", price |-> "$9"],
                 [name |-> "margherita", price |-> "$11"]>>]

\* a category without an items property
CatPastaBare == [category |-> "pasta"]

\* an item that is null
CatPizzaNullItem == [category |-> "pizza", items |-> <<JNull>>]

\* an item without a name in a category without a name
CatNameless == [items |-> <<[price |-> "$5"]>>]

CategoryPool ==
    {CatPizza, CatPizzaLower, CatPizzaTwice, CatPizzaMore, CatPasta,
     CatPastaBare, CatPizzaNullItem, CatNameless, JNull}

RECURSIVE SeqsUpTo(_, _)
SeqsUpTo(S, n) ==
    IF n = 0 THEN {<<>>}
    ELSE LET shorter == SeqsUpTo(S, n - 1)
         IN shorter \cup {Append(q, x) : q \in shorter, x \in S}

MenuInputs == SeqsUpTo(CategoryPool, MaxCats)

MergeInit ==
    /\ mergeOld \in MenuInputs
    /\ mergeNew \in MenuInputs
    /\ mergeOut = <<>>
    /\ mergeHeldOld = mergeOld
    /\ mergeHeldNew = mergeNew

\* The outcome of a call made with the item objects of newMenu told apart,
\* as the caller sees it.
Returned(st) == [st EXCEPT !.merged = WithoutRefs(@)]

\* const r1 = mergeMenus(oldMenu, newMenu).  The call is made with the item
\* objects of newMenu told apart, to say what the two arrays hold after it.
MergeCall ==
    /\ Len(mergeOut) = 0
    /\ \E new0 \in {WithRefs(mergeNew)} :
       \E first \in {mergeMenus(mergeOld, new0)} :
          /\ mergeOut' = <<Returned(first)>>
          /\ mergeHeldOld' = WithoutRefs(OldMenuAfter(mergeOld, first))
          /\ mergeHeldNew' = WithoutRefs(NewMenuAfter(mergeOld, new0, first))
    /\ UNCHANGED <<mergeOld, mergeNew>>

\* const r2 = mergeMenus(r1, newMenu), with the same newMenu array, which
\* holds what the first call left in it
MergeAgain ==
    /\ Len(mergeOut) = 1
    /\ ~mergeOut[1].threw
    /\ \E new0 \in {WithRefs(mergeNew)} :
       \E first \in {mergeMenus(mergeOld, new0)} :
       \E new1 \in {NewMenuAfter(mergeOld, new0, first)} :
       \E second \in {mergeMenus(first.merged, new1)} :
          /\ mergeOut' = Append(mergeOut, Returned(second))
          /\ mergeHeldOld' = WithoutRefs(OldMenuAfter(mergeHeldOld, second))
          /\ mergeHeldNew' =
                WithoutRefs(NewMenuAfter(first.merged, new1, second))
    /\ UNCHANGED <<mergeOld, mergeNew>>

\* No request is followed through its awaits: each is served at once.
AsyncIdle ==
    /\ reqs = <<>>
    /\ clockDate = <<>>
    /\ backups = EmptyObject
    /\ started = EmptyObject

\* No page has loaded the widget.
WidgetIdle ==
    /\ history = <<>>
    /\ messages = <<>>
    /\ inputValue = ""
    /\ sendDisabled = FALSE
    /\ sends = <<>>

StoreIdle ==
    /\ AsyncIdle
    /\ restaurants = EmptyObject
    /\ storeIsNull = FALSE
    /\ order = <<>>
    /\ file = [kind |-> "missing"]
    /\ backup = [kind |-> "missing"]
    /\ last = [op |-> "none"]
    /\ nops = 0
    /\ chatLog = <<>>

OffersIdle ==
    /\ actRec = EmptyObject
    /\ actNow = EmptyObject
    /\ actOut = EmptyObject

InitMerge == MergeInit /\ StoreIdle /\ OffersIdle /\ WidgetIdle

NextMerge ==
    \/ MergeCall /\ UNCHANGED <<storeVars, offerVars, widgetVars>>
    \/ MergeAgain /\ UNCHANGED <<storeVars, offerVars, widgetVars>>

SpecMerge == InitMerge /\ [][NextMerge]_vars

-----------------------------------------------------------------------------
(* offerIsActive and getActiveOffers called on their own *)

MaxOffers == 2

Jan31 == <<"2", "0", "2", "5", "-", "0", "1", "-", "3", "1">>
Feb01 == <<"2", "0", "2", "5", "-", "0", "2", "-", "0", "1">>

T1600 == <<"1", "6", ":", "0", "0">>
T1800 == <<"1", "8", ":", "0", "0">>
\* a time that is not "HH:MM", and the empty text
T5pm == <<"5", "p", "m">>
NoText == <<>>

\* The object with the one property k, for each value of vals, and the
\* object without it.
Optional(k, vals) == {EmptyObject} \cup {k :> v : v \in vals}

\* Offers with every combination of the fields offerIsActive reads.
OfferPool ==
    {[title |-> "Deal"] @@ sd @@ ed @@ dw @@ st @@ et :
        sd \in Optional("startDate", {Feb01}),
        ed \in Optional("endDate", {Jan31, Feb01}),
        dw \in Optional("daysOfWeek", {Arr(<<>>), Arr(<<5>>), NotArray}),
        st \in Optional("startTime", {T1600, T1800, T5pm}),
        et \in Optional("endTime", {T1800, T1600, NoText})}

\* The offer of the scenario, an offer of Fridays, an offer that has ended,
\* an offer without any window.
HappyHour ==
    [title |-> "Happy Hour", startTime |-> T1600, endTime |-> T1800,
     daysOfWeek |-> Arr(<<>>)]
FridayDeal == [title |-> "Friday", daysOfWeek |-> Arr(<<5>>)]
EndedDeal == [title |-> "Ended", endDate |-> Jan31]
PlainDeal == [title |-> "Plain"]

ListedOffers == {HappyHour, FridayDeal, EndedDeal, PlainDeal, JNull}

\* The restaurants given to getActiveOffers: without offers, with offers
\* that are not an array, with one offer of OfferPool, with a list of
\* listed offers.
RestaurantInputs ==
    {[id |-> "r1", name |-> "Roma"],
     [id |-> "r1", name |-> "Roma", offers |-> NotArray]}
    \cup {[id |-> "r1", name |-> "Roma", offers |-> Arr(<<o>>)] :
            o \in OfferPool}
    \cup {[id |-> "r1", name |-> "Roma", offers |-> Arr(l)] :
            l \in SeqsUpTo(ListedOffers, MaxOffers)}

\* Friday 31 January and Saturday 1 February 2025 (the date is that of UTC,
\* the weekday and the clock those of the server's time zone, which the code
\* does not fix), at clock times around a 16:00-18:00 window.
ClockTimes ==
    {[hours |-> 15, minutes |-> 59], [hours |-> 16, minutes |-> 0],
     [hours |-> 17, minutes |-> 0], [hours |-> 18, minutes |-> 0],
     [hours |-> 18, minutes |-> 1], [hours |-> 19, minutes |-> 0]}

Instants ==
    {[today |-> d, day |-> w, hours |-> c.hours, minutes |-> c.minutes] :
        d \in {Jan31, Feb01}, w \in {5, 6}, c \in ClockTimes}

\* The calendar around the two dates, with the weekday of each date.
Calendar ==
    <<[date |-> <<"2", "0", "2", "5", "-", "0", "1", "-", "3", "0">>, day |-> 4],
      [date |-> Jan31, day |-> 5],
      [date |-> Feb01, day |-> 6],
      [date |-> <<"2", "0", "2", "5", "-", "0", "2", "-", "0", "2">>, day |-> 0]>>

MinutesPerDay == 1440

\* new Date() at `minutes` past midnight UTC of Calendar[d], on a server
\* whose local time is UTC + offset minutes: toISOString() gives the date
\* of UTC, getDay(), getHours() and getMinutes() those of local time.
\* localDate is the local calendar date, which the code does not read.
DateAt(d, minutes, offset) ==
    LET local == minutes + offset
        ld == IF local < 0 THEN d - 1
              ELSE IF local >= MinutesPerDay THEN d + 1 ELSE d
        clock == (local + MinutesPerDay) % MinutesPerDay
    IN [today |-> Calendar[d].date,
        day |-> Calendar[ld].day,
        hours |-> clock \div 60,
        minutes |-> clock % 60,
        localDate |-> Calendar[ld].date]

\* Half past midnight, five in the afternoon and half past eleven at night
\* UTC, on servers at UTC-5, UTC and UTC+5:30.
ZoneOffsets == {0 - 300, 0, 330}

ZonedInstants ==
    {DateAt(d, m, z) : d \in {2, 3}, m \in {30, 1020, 1410}, z \in ZoneOffsets}

OffersInit ==
    /\ actRec \in RestaurantInputs
    /\ actNow \in Instants \cup ZonedInstants
    /\ actOut = EmptyObject

\* offerIsActive(o, now) for each offer o of the restaurant
IsActiveCall ==
    /\ "isActive" \notin DOMAIN actOut
    /\ "offers" \in DOMAIN actRec /\ IsArray(actRec.offers)
    /\ actOut' = actOut @@
          [isActive |-> [i \in 1..Len(actRec.offers.arr) |->
                           offerIsActive(actRec.offers.arr[i], actNow)]]
    /\ UNCHANGED <<actRec, actNow>>

\* getActiveOffers(restaurant, now)
GetActiveCall ==
    /\ "active" \notin DOMAIN actOut
    /\ actOut' = actOut @@ [active |-> getActiveOffers(actRec, actNow)]
    /\ UNCHANGED <<actRec, actNow>>

\* the context of a chat request on the restaurant at now
ContextCall ==
    /\ "context" \notin DOMAIN actOut
    /\ actOut' = actOut @@ [context |-> BuildContext(actRec, actNow)]
    /\ UNCHANGED <<actRec, actNow>>

MergeIdle ==
    /\ mergeOld = <<>>
    /\ mergeNew = <<>>
    /\ mergeOut = <<>>
    /\ mergeHeldOld = <<>>
    /\ mergeHeldNew = <<>>

InitOffers == OffersInit /\ StoreIdle /\ MergeIdle /\ WidgetIdle

NextOffers ==
    \/ IsActiveCall /\ UNCHANGED <<storeVars, mergeVars, widgetVars>>
    \/ GetActiveCall /\ UNCHANGED <<storeVars, mergeVars, widgetVars>>
    \/ ContextCall /\ UNCHANGED <<storeVars, mergeVars, widgetVars>>

SpecOffers == InitOffers /\ [][NextOffers]_vars

-----------------------------------------------------------------------------
(* The server answering chat requests *)

MaxChats == 2

\* Restaurants with a phone and a maps URL, a phone only, an ordering link
\* only, neither, a maps URL and an empty list of ordering links, and one
\* whose list of offers holds null.
ChatRoma ==
    [id |-> "r1", name |-> "Roma", phone |-> "555-0100",
     googleMapsUrl |-> "https://maps.example/roma",
     orderingLinks |-> <<[label |-> "Order", url |-> "https://order.example/roma"]>>,
     menu |-> <<[category |-> "Pizza",
                 items |-> <<[name |-> "Margherita", price |-> "$10"]>>]>>,
     offers |-> <<FridayDeal, HappyHour>>, faq |-> <<>>]

ChatNapoli ==
    [id |-> "r2", name |-> "Napoli", phone |-> "555-0200", menu |-> <<>>,
     offers |-> <<>>, faq |-> <<>>]

ChatPisa ==
    [id |-> "r3", name |-> "Pisa", phone |-> "",
     orderingLinks |-> <<[label |-> "Order", url |-> "https://order.example/pisa"],
                         [label |-> "Other", url |-> "https://other.example/pisa"]>>,
     menu |-> <<>>, offers |-> <<PlainDeal>>, faq |-> <<>>]

ChatBari == [id |-> "r4", name |-> "Bari"]

ChatLecce ==
    [id |-> "r5", name |-> "Lecce",
     googleMapsUrl |-> "https://maps.example/lecce",
     orderingLinks |-> <<>>, offers |-> <<JNull>>]

ChatFilePool ==
    {FileMissing, DocNull,
     DocObject(<<"r1", "r2", "r3", "r4", "r5">>,
               [r1 |-> ChatRoma, r2 |-> ChatNapoli, r3 |-> ChatPisa,
                r4 |-> ChatBari, r5 |-> ChatLecce]),
     DocArray(<<ChatNapoli, ChatBari>>)}

\* The bodies of the chat requests: the id of a record of the file, an id
\* that no record has, a name of Object.prototype, or no id.
ChatBodies ==
    {[message |-> "Any deals?"] @@ rid @@ h :
        rid \in Optional("restaurantId",
                         {"r1", "r2", "r3", "r4", "r5", "r404",
                          "constructor"}),
        h \in {EmptyObject, [history |-> BadHistory]}}
    \cup {[restaurantId |-> "r1", message |-> "And on Saturday?",
           history |-> Arr(<<[role |-> "user", content |-> "Any deals?"]>>)]}

\* Friday 31 January 2025 at 17:00 and Saturday 1 February 2025 at 19:00.
ChatInstants ==
    {[today |-> Jan31, day |-> 5, hours |-> 17, minutes |-> 0],
     [today |-> Feb01, day |-> 6, hours |-> 19, minutes |-> 0]}

\* start(), with nothing in chat-logs.jsonl
InitChat ==
    /\ file \in ChatFilePool
    /\ LET loaded == loadRestaurants(file)
       IN /\ restaurants = loaded.map
          /\ storeIsNull = loaded.isNull
          /\ order = loaded.keys
    /\ backup = FileMissing
    /\ last = [op |-> "start"]
    /\ nops = 0
    /\ chatLog = <<>>
    /\ MergeIdle
    /\ OffersIdle
    /\ AsyncIdle
    /\ WidgetIdle

ChatRequest ==
    /\ nops < MaxChats
    /\ \E body \in ChatBodies, now \in ChatInstants,
          completion \in CompletionOutcomes, logged \in BOOLEAN :
          Chat(body, now, completion, logged)
    /\ UNCHANGED <<mergeVars, offerVars, asyncVars, widgetVars>>

NextChat == ChatRequest

SpecChat == InitChat /\ [][NextChat]_vars

-----------------------------------------------------------------------------
(* The server: start(), then requests served one after another *)

MaxOps == 2

\* the ids in the path of the upsert requests (a second record, "r2", comes
\* from the files of FilePool)
Ids == {"r1"}

OfferA == [title |-> "A"]
OfferB == [title |-> "B"]

MenuPizza == <<CatPizza>>
MenuPizzaLower == <<CatPizzaLower>>
MenuPasta == <<CatPasta>>

\* a menu whose second category is null: mergeMenus raises on it after it
\* has dealt with the first
MenuBroken ==
    <<[category |-> "pizza",
       items |-> <<[name |-> "margherita", price |-> "$12"]>>],
      JNull>>

RecRoma ==
    [id |-> "r1", name |-> "Roma", menu |-> MenuPizza, offers |-> <<OfferA>>,
     faq |-> <<>>, metaSourceUrl |-> "https://roma.example/",
     menuSourceUrl |-> "https://roma.example/menu",
     offersSourceUrl |-> "https://roma.example/offers"]

RecNapoli ==
    [id |-> "r2", name |-> "Napoli", menu |-> <<>>, offers |-> <<>>,
     faq |-> <<>>, menuSourceUrl |-> "https://napoli.example/menu"]

\* a record as the earlier revisions of the server wrote it: { id } and the
\* fields of the request, without menu or offers
RecLegacy == [id |-> "r2", name |-> "Napoli"]

\* What restaurants.json holds when the server starts.
FilePool ==
    {FileMissing, FileInvalid, DocNull, DocNumber,
     DocObject(<<"r1">>, [r1 |-> RecRoma]),
     DocObject(<<"r2", "r1">>, [r1 |-> RecRoma, r2 |-> RecNapoli]),
     DocObject(<<"r2", "r1">>, [r1 |-> RecRoma, r2 |-> RecLegacy]),
     DocArray(<<RecRoma, JNull, [name |-> "Nameless"], RecNapoli,
                [id |-> "r1", name |-> "Roma II"]>>)}

\* The request bodies of POST /restaurants/:id.
FlagPatches ==
    {EmptyObject,
     [replace |-> TRUE, replaceOffers |-> TRUE, id |-> "r9", name |-> "Nove"]}

MenuPatches ==
    {f @@ [menu |-> Arr(m)] :
        f \in {EmptyObject, [replace |-> TRUE]},
        m \in {MenuPizza, MenuPizzaLower, MenuBroken}}
    \cup {[menu |-> NotArray, replace |-> TRUE],
          [menu |-> Arr(MenuPizza), replace |-> FALSE]}

OffersPatches ==
    {f @@ [offers |-> Arr(o)] :
        f \in {EmptyObject, [replaceOffers |-> TRUE]},
        o \in {<<OfferA>>, <<OfferB, OfferA>>}}
    \cup {[offers |-> NotArray, replaceOffers |-> TRUE],
          [offers |-> Arr(<<OfferB>>), replaceOffers |-> FALSE]}

MixedPatches ==
    {[menu |-> Arr(MenuPasta), offers |-> Arr(<<OfferB>>), name |-> "Nove",
      menuSourceUrl |-> "https://nove.example/menu"],
     [menu |-> NotArray, offers |-> NotArray, replace |-> TRUE,
      replaceOffers |-> TRUE, id |-> "r9",
      offersSourceUrl |-> "https://nove.example/offers",
      metaSourceUrl |-> "https://nove.example/"]}

Patches == FlagPatches \cup MenuPatches \cup OffersPatches \cup MixedPatches

\* The answers of the three import routes to rescan-all.
MetaAnswers ==
    {FetchThrew,
     [metadata |-> [name |-> "Trattoria", phone |-> "555-0100"]],
     [metadata |-> [id |-> "r9", name |-> "Trattoria"]]}

MenuAnswers == {[error |-> "Failed to import menu"], [menu |-> Arr(MenuPasta)]}

OffersAnswers == {FetchThrew, [offers |-> Arr(<<OfferB>>)]}

AnswersFor(r) ==
    [meta : IF Truthy(Get(r, "metaSourceUrl")) THEN MetaAnswers ELSE {NoFetch},
     menu : IF Truthy(Get(r, "menuSourceUrl")) THEN MenuAnswers ELSE {NoFetch},
     offers : IF Truthy(Get(r, "offersSourceUrl")) THEN OffersAnswers
              ELSE {NoFetch}]

RECURSIVE AnswerSeqs(_)
AnswerSeqs(values) ==
    IF Len(values) = 0 THEN {<<>>}
    ELSE {<<a>> \o rest : a \in AnswersFor(Head(values)),
                          rest \in AnswerSeqs(Tail(values))}

\* async function start() { restaurants = await loadRestaurants(); ... }
Init ==
    /\ file \in FilePool
    /\ LET loaded == loadRestaurants(file)
       IN /\ restaurants = loaded.map
          /\ storeIsNull = loaded.isNull
          /\ order = loaded.keys
    /\ backup = FileMissing
    /\ last = [op |-> "start"]
    /\ nops = 0
    /\ chatLog = <<>>
    /\ MergeIdle
    /\ OffersIdle
    /\ AsyncIdle
    /\ WidgetIdle

UpsertRequest ==
    /\ nops < MaxOps
    /\ \E id \in Ids, data \in Patches, outcome \in SaveOutcomes :
          Upsert(id, data, outcome)
    /\ UNCHANGED <<chatLog, mergeVars, offerVars, asyncVars, widgetVars>>

RescanRequest ==
    /\ nops < MaxOps
    /\ \E outcome \in SaveOutcomes :
       \E answers \in AnswerSeqs([k \in 1..Len(order) |-> restaurants[order[k]]]) :
          RescanAll(answers, outcome)
    /\ UNCHANGED <<chatLog, mergeVars, offerVars, asyncVars, widgetVars>>

Next == UpsertRequest \/ RescanRequest

Spec == Init /\ [][Next]_vars

-----------------------------------------------------------------------------
(* The server with requests in flight: each handler runs from one await to *)
(* the next in one step, and the steps of different requests interleave    *)

MaxReqs == 2

\* The patches of the requests in flight.
AsyncPatches ==
    {[offers |-> Arr(<<OfferB>>)],
     [menu |-> Arr(MenuPizzaLower)],
     [name |-> "Nove", offers |-> Arr(<<OfferA>>), replaceOffers |-> TRUE]}

AsyncFilePool == {FileMissing, DocObject(<<"r1">>, [r1 |-> RecRoma])}

\* ExistingRecord reading the record as start() loaded it, not the record
\* of the map as it is now.
ExistingRecordAsLoaded(map, id) ==
    IF id \in DOMAIN started.map THEN started.map[id] ELSE DefaultRecord(id)

\* const existing = restaurants[id] || { id, menu: [], offers: [], faq: [] }
ExistingRecord(map, id) ==
    IF id \in DOMAIN map THEN map[id] ELSE DefaultRecord(id)

\* POST /restaurants/:id from its first line to restaurants[id] = updated:
\* no await in between.  A mergeMenus that raises ends the handler with the
\* items it had updated by then in the stored record.
UpsertStore(map, keys, id, data) ==
    LET existing == ExistingRecord(map, id)
        fm == FinalMenu(existing, data)
        updated == UpdatedRecord(existing, data, id, fm,
                                 FinalOffers(existing, data))
    IN IF fm.threw
       THEN [threw |-> TRUE, updated |-> EmptyObject, keys |-> keys,
             map |-> IF id \in DOMAIN map /\ fm.has
                     THEN [map EXCEPT ![id].menu = fm.menu] ELSE map]
       ELSE [threw |-> FALSE, updated |-> updated,
             keys |-> IF id \in DOMAIN map THEN keys ELSE Append(keys, id),
             map |-> (id :> updated) @@ map]

\* A request that has just been received.  pc is the await its handler is
\* suspended in ("fetch", "main", "mkdir", "backup") or "done", "threw";
\* during and upserted are kept for the properties: the requests that were
\* unanswered when this one was received, and the ids upserted while a
\* rescan waits for the answers about one record.
NewRequest(kind) ==
    [kind |-> kind, pc |-> "done", id |-> "", data |-> EmptyObject,
     updated |-> EmptyObject, values |-> <<>>, k |-> 0, results |-> <<>>,
     json |-> DocNull, path |-> <<>>, save |-> "none",
     response |-> EmptyObject,
     during |-> {q \in 1..Len(reqs) : reqs[q].pc \notin {"done", "threw"}},
     upserted |-> {}]

\* r.metaSourceUrl, r.menuSourceUrl or r.offersSourceUrl is set: the loop
\* awaits at least one fetch for r.
NeedsFetch(r) ==
    \/ Truthy(Get(r, "metaSourceUrl"))
    \/ Truthy(Get(r, "menuSourceUrl"))
    \/ Truthy(Get(r, "offersSourceUrl"))

\* The loop of rescan-all from record k on, as far as it runs without an
\* await: a record without source URL collects no update and is reported
\* not updated.  The result is the first record that needs a fetch (or
\* Len(values) + 1) and the results pushed by then.
RECURSIVE RescanAdvance(_, _, _)
RescanAdvance(results, values, k) ==
    IF k > Len(values) \/ NeedsFetch(values[k])
    THEN [k |-> k, results |-> results]
    ELSE RescanAdvance(
           Append(results, [id |-> Get(values[k], "id"), updated |-> FALSE]),
           values, k + 1)

\* The rescan request q once its loop has gone as far as adv: suspended in
\* the fetches of record adv.k, or, after the last record, in the write of
\* saveRestaurants(restaurants) with the store as it is then.
RescanSuspended(req, adv, keys, map) ==
    [req EXCEPT
       !.k = adv.k,
       !.results = adv.results,
       !.upserted = {},
       !.pc = IF adv.k > Len(req.values) THEN "main" ELSE "fetch",
       !.json = IF adv.k > Len(req.values) THEN Stringify(FALSE, keys, map)
                ELSE @]

\* res.json(updated) / res.json({ ok: true, results }) after the save.
ResponseOf(req, outcome) ==
    IF req.kind = "upsert" THEN UpsertResponse(req.updated, outcome)
    ELSE [status |-> 200, body |-> [ok |-> TRUE, results |-> req.results]]

\* saveRestaurants after the write of restaurants.json failing although
\* the target of the next await is the backup all the same.
AfterMainWriteAlways(ok) == "mkdir"

\* saveRestaurants after await fs.writeFile(restaurantsFile, ...): on to
\* the backup, or, the write having raised, to the outer catch.
AfterMainWrite(ok) == IF ok THEN "mkdir" ELSE "done"

\* The request is answered: saveRestaurants has returned as `outcome`.
Answered(req, outcome) ==
    [req EXCEPT !.pc = "done", !.save = outcome,
                !.response = ResponseOf(req, outcome)]

\* POST /restaurants/:id is received: the handler runs to the await of
\* fs.writeFile in saveRestaurants, which has the JSON text by then.
UpsertStart ==
    /\ Len(reqs) < MaxReqs
    /\ \E id \in {"r1", "r2"}, data \in AsyncPatches :
         LET u == UpsertStore(restaurants, order, id, data)
             req == [NewRequest("upsert") EXCEPT !.id = id, !.data = data]
             seen == [q \in 1..Len(reqs) |->
                        IF reqs[q].pc = "fetch"
                        THEN [reqs[q] EXCEPT !.upserted = @ \cup {id}]
                        ELSE reqs[q]]
         IN IF storeIsNull
            THEN /\ reqs' = Append(reqs, [req EXCEPT !.pc = "threw"])
                 /\ last' = [op |-> "upsertStart", q |-> Len(reqs) + 1]
                 /\ UNCHANGED <<restaurants, order>>
            ELSE /\ restaurants' = u.map
                 /\ order' = u.keys
                 /\ reqs' = Append(seen,
                       IF u.threw THEN [req EXCEPT !.pc = "threw"]
                       ELSE [req EXCEPT
                               !.pc = "main",
                               !.updated = u.updated,
                               !.json = Stringify(FALSE, u.keys, u.map)])
                 /\ last' = [op |-> "upsertStart", q |-> Len(reqs) + 1]
    /\ UNCHANGED <<storeIsNull, file, clockDate, backups>>

\* POST /admin/rescan-all is received: Object.values(restaurants) is taken
\* and the loop runs to its first fetch (to the save, if no record has a
\* source URL).  On a store that is null the catch answers 500.
RescanStart ==
    /\ Len(reqs) < MaxReqs
    /\ LET req == NewRequest("rescan")
           values == [k \in 1..Len(order) |-> restaurants[order[k]]]
       IN IF storeIsNull
          THEN reqs' = Append(reqs,
                 [req EXCEPT !.response =
                     [status |-> 500, body |-> [error |-> "Rescan failed"]]])
          ELSE reqs' = Append(reqs,
                 RescanSuspended([req EXCEPT !.values = values],
                                 RescanAdvance(<<>>, values, 1),
                                 order, restaurants))
    /\ last' = [op |-> "rescanStart", q |-> Len(reqs) + 1]
    /\ UNCHANGED <<restaurants, storeIsNull, order, file, clockDate, backups>>

\* The fetches of rescan-all for the record it is at have been answered:
\* the updates are written and the loop runs on to its next await.  (The
\* handler reads and writes nothing but its own `updates` between the three
\* fetches of one record, so they are one step.)
RescanFetched ==
    \E q \in 1..Len(reqs) :
       /\ reqs[q].pc = "fetch"
       /\ LET r == reqs[q].values[reqs[q].k]
          IN \E answers \in AnswersFor(r) :
               LET id == Get(r, "id")
                   updates == UpdatesFor(r, answers)
                   written == RescanWrite([keys |-> order, map |-> restaurants],
                                          id, updates)
                   results == Append(reqs[q].results,
                                [id |-> id, updated |-> DOMAIN updates # {}])
               IN /\ restaurants' = written.map
                  /\ order' = written.keys
                  /\ reqs' = [reqs EXCEPT ![q] =
                        RescanSuspended(@,
                           RescanAdvance(results, @.values, @.k + 1),
                           written.keys, written.map)]
                  /\ last' = [op |-> "rescanWrite", q |-> q, key |-> KeyOf(id),
                              updates |-> updates,
                              upserted |-> reqs[q].upserted]
       /\ UNCHANGED <<storeIsNull, file, clockDate, backups>>

\* await fs.writeFile(restaurantsFile, json, "utf8") of a save ends.  The
\* writes of the saves in flight end in any order.
MainWriteEnds ==
    \E q \in 1..Len(reqs), ok \in BOOLEAN :
       /\ reqs[q].pc = "main"
       /\ file' = IF ok THEN reqs[q].json ELSE file
       /\ reqs' = [reqs EXCEPT ![q] =
             IF AfterMainWrite(ok) = "done" THEN Answered(@, "mainFailed")
             ELSE [@ EXCEPT !.pc = AfterMainWrite(ok)]]
       /\ last' = [op |-> "mainWrite", q |-> q, ok |-> ok]
       /\ UNCHANGED <<restaurants, storeIsNull, order, clockDate, backups>>

\* await fs.mkdir(backupsDir, { recursive: true }) ends: the date is read
\* and the write of restaurants-<date>.json begins, or the inner catch logs
\* the error and the save returns.
MkdirEnds ==
    \E q \in 1..Len(reqs), ok \in BOOLEAN :
       /\ reqs[q].pc = "mkdir"
       /\ reqs' = [reqs EXCEPT ![q] =
             IF ok THEN [@ EXCEPT !.pc = "backup", !.path = clockDate]
             ELSE Answered(@, "backupFailed")]
       /\ last' = [op |-> "mkdir", q |-> q, ok |-> ok]
       /\ UNCHANGED <<restaurants, storeIsNull, order, file, clockDate,
                      backups>>

\* await fs.writeFile(backupPath, json, "utf8") ends; the save returns and
\* the handler answers.
BackupWriteEnds ==
    \E q \in 1..Len(reqs), ok \in BOOLEAN :
       /\ reqs[q].pc = "backup"
       /\ backups' = IF ok THEN (reqs[q].path :> reqs[q].json) @@ backups
                     ELSE backups
       /\ reqs' = [reqs EXCEPT ![q] =
             Answered(@, IF ok THEN "saved" ELSE "backupFailed")]
       /\ last' = [op |-> "backupWrite", q |-> q, ok |-> ok]
       /\ UNCHANGED <<restaurants, storeIsNull, order, file, clockDate>>

\* Midnight (UTC) passes.
Midnight ==
    /\ clockDate = Jan31
    /\ clockDate' = Feb01
    /\ last' = [op |-> "midnight"]
    /\ UNCHANGED <<restaurants, storeIsNull, order, file, backups, reqs>>

InitAsync ==
    /\ file \in AsyncFilePool
    /\ LET loaded == loadRestaurants(file)
       IN /\ restaurants = loaded.map
          /\ storeIsNull = loaded.isNull
          /\ order = loaded.keys
          /\ started = [keys |-> loaded.keys, map |-> loaded.map]
    /\ backup = FileMissing
    /\ last = [op |-> "start"]
    /\ nops = 0
    /\ chatLog = <<>>
    /\ reqs = <<>>
    /\ clockDate = Jan31
    /\ backups = EmptyObject
    /\ MergeIdle
    /\ OffersIdle
    /\ WidgetIdle

asyncFrame ==
    <<backup, nops, chatLog, started, mergeVars, offerVars, widgetVars>>

NextAsync ==
    \/ UpsertStart /\ UNCHANGED asyncFrame
    \/ RescanStart /\ UNCHANGED asyncFrame
    \/ RescanFetched /\ UNCHANGED asyncFrame
    \/ MainWriteEnds /\ UNCHANGED asyncFrame
    \/ MkdirEnds /\ UNCHANGED asyncFrame
    \/ BackupWriteEnds /\ UNCHANGED asyncFrame
    \/ Midnight /\ UNCHANGED asyncFrame

SpecAsync == InitAsync /\ [][NextAsync]_vars

-----------------------------------------------------------------------------
(* The chat widget of a page: the customer types, clicks Send or presses   *)
(* Enter, and the answers of POST /chat arrive                             *)

MaxSends == 3

\* String.prototype.trim on the texts the customer types.
TrimTable == ("  " :> "") @@ ("hi " :> "hi") @@ (" menu? " :> "menu?")

trim(s) == IF s \in DOMAIN TrimTable THEN TrimTable[s] ELSE s

TypedTexts == {"", "  ", "hi", "hi ", " menu? "}

\* data-restaurant-id of the script tag
restaurantId == "r1"

Greeting ==
    <<"Hi! I'm your AI assistant. Ask me about our menu, offers, hours, or ordering.">>

\* What the two awaits of sendMessage give: the body of an answer of
\* POST /chat (the reply, the fallback of its catch block with and without
\* a restaurant, 404, a reply that is empty), or a rejection (no network,
\* a body that is not JSON).
WidgetAnswers ==
    {[kind |-> "json", status |-> 200, body |-> [reply |-> ReplyText]],
     [kind |-> "json", status |-> 200, body |-> [reply |-> <<>>]],
     [kind |-> "json"] @@ FallbackResponse(TRUE, ChatRoma),
     [kind |-> "json"] @@ FallbackResponse(FALSE, EmptyObject),
     [kind |-> "json", status |-> 404,
      body |-> [error |-> "Restaurant not found"]],
     [kind |-> "rejected"]}

\* addMessage(text, sender)
addMessage(shown, text, sender) ==
    Append(shown, [text |-> text, sender |-> sender])

\* data.reply || "(No reply)"
ReplyOf(data) ==
    IF "reply" \in DOMAIN data /\ data.reply # <<>> THEN data.reply
    ELSE <<"(No reply)">>

\* The try block of sendMessage from `const data` on, and its catch: what
\* is shown and the history after the answer to the message `text`.
AfterAnswer(shown, hist, text, answer) ==
    IF answer.kind = "rejected"
    THEN [messages |-> addMessage(shown, <<"Sorry, something went wrong.">>,
                                  "bot"),
          history |-> hist]
    ELSE IF Truthy(Get(answer.body, "error"))
    THEN [messages |-> addMessage(shown, <<"Error: ", answer.body.error>>,
                                  "bot"),
          history |-> hist]
    ELSE [messages |-> addMessage(shown, ReplyOf(answer.body), "bot"),
          history |-> hist \o <<[role |-> "user", content |-> <<text>>],
                                [role |-> "assistant",
                                 content |-> ReplyOf(answer.body)]>>]

\* sendMessage() up to the await of fetch: nothing happens on a text that
\* trims to nothing; otherwise the text is shown, the input is emptied,
\* the button is disabled and the request leaves with the history so far.
sendMessage(by) ==
    LET text == trim(inputValue)
    IN IF text = ""
       THEN UNCHANGED widgetVars
       ELSE /\ messages' = addMessage(messages, <<text>>, "user")
            /\ inputValue' = ""
            /\ sendDisabled' = TRUE
            /\ sends' = Append(sends,
                  [pc |-> "fetch", by |-> by, text |-> text,
                   body |-> [restaurantId |-> restaurantId, message |-> text,
                             history |-> Arr(history)],
                   answer |-> EmptyObject])
            /\ UNCHANGED history

\* The customer changes the text of the input.
TypeText ==
    /\ \E t \in TypedTexts : t # inputValue /\ inputValue' = t
    /\ UNCHANGED <<history, messages, sendDisabled, sends>>

\* sendBtn.addEventListener("click", sendMessage): a disabled button gets
\* no click.
ClickSend ==
    /\ Len(sends) < MaxSends
    /\ ~sendDisabled
    /\ sendMessage("click")

\* keydown on the input with e.key === "Enter"
PressEnter ==
    /\ Len(sends) < MaxSends
    /\ sendMessage("enter")

\* The fetch of a call of sendMessage, and response.json(), end: the rest
\* of the try block, the catch and the finally block run.
AnswerArrives ==
    \E q \in 1..Len(sends), answer \in WidgetAnswers :
       /\ sends[q].pc = "fetch"
       /\ LET after == AfterAnswer(messages, history, sends[q].text, answer)
          IN /\ messages' = after.messages
             /\ history' = after.history
       /\ sendDisabled' = FALSE
       /\ sends' = [sends EXCEPT ![q] = [@ EXCEPT !.pc = "done",
                                                  !.answer = answer]]
       /\ UNCHANGED inputValue

\* initWidget() has run on a page with a body and a data-restaurant-id.
InitWidget ==
    /\ history = <<>>
    /\ messages = addMessage(<<>>, Greeting, "bot")
    /\ inputValue = ""
    /\ sendDisabled = FALSE
    /\ sends = <<>>
    /\ StoreIdle
    /\ MergeIdle
    /\ OffersIdle

widgetFrame == <<storeVars, mergeVars, offerVars>>

NextWidget ==
    \/ TypeText /\ UNCHANGED widgetFrame
    \/ ClickSend /\ UNCHANGED widgetFrame
    \/ PressEnter /\ UNCHANGED widgetFrame
    \/ AnswerArrives /\ UNCHANGED widgetFrame

SpecWidget == InitWidget /\ [][NextWidget]_vars


-----------------------------------------------------------------------------
(* Properties of mergeMenus called on its own (SpecMerge) *)

\* c.items || []
ItemsOf(c) == IF "items" \in DOMAIN c THEN c.items ELSE <<>>

\* No category and no item of the menu is null.
WellFormed(menu) ==
    \A c \in 1..Len(menu) :
        /\ ~IsNull(menu[c])
        /\ \A i \in 1..Len(ItemsOf(menu[c])) : ~IsNull(ItemsOf(menu[c])[i])

\* The first call returned.
Merged1 == Len(mergeOut) >= 1 /\ ~mergeOut[1].threw

IsFirstCategory(menu, c) ==
    \A d \in 1..(c - 1) : ~SameCategoryName(menu[d], menu[c])

IsFirstItem(items, i) ==
    \A j \in 1..(i - 1) : ~SameItemName(items[j], items[i])

\* The items, in order, of the categories of menu named like cat.
RECURSIVE IncomingFor(_, _)
IncomingFor(menu, cat) ==
    IF Len(menu) = 0 THEN <<>>
    ELSE (IF SameCategoryName(Head(menu), cat) THEN ItemsOf(Head(menu))
          ELSE <<>>) \o IncomingFor(Tail(menu), cat)

\* The last truthy value of field f among the incoming items named like item,
\* and the item's own value when there is none.
RECURSIVE ExpectedField(_, _, _)
ExpectedField(item, incoming, f) ==
    IF Len(incoming) = 0 THEN Get(item, f)
    ELSE LET lastIn == incoming[Len(incoming)]
         IN IF SameItemName(lastIn, item) /\ Truthy(Get(lastIn, f))
            THEN Get(lastIn, f)
            ELSE ExpectedField(item, SubSeq(incoming, 1, Len(incoming) - 1), f)

LowerCategoryNames(menu) ==
    {OptLower(Get(menu[c], "category")) : c \in 1..Len(menu)}

LowerItemNames(items) ==
    {OptLower(Get(items[i], "name")) : i \in 1..Len(items)}

\* C7: mergeMenus matches categories and items by name ignoring case; on a
\* matched item each of price, notes and image takes the incoming value only
\* when that value is truthy and keeps its own value otherwise, and the name
\* of an existing item never changes.  For menus without null entries: every
\* category and item of oldMenu stays at its position with its name; an
\* incoming category (item) whose lower-cased name is that of an existing one
\* adds no category (item); and each field of an existing item ends as the
\* last truthy incoming value for that item, or as it was.
C7_MatchIgnoringCaseTruthyOverwrite ==
    (Merged1 /\ WellFormed(mergeOld) /\ WellFormed(mergeNew)) =>
        LET R == mergeOut[1].merged
        IN /\ Len(R) = Len(mergeOld)
                 + Cardinality(LowerCategoryNames(mergeNew)
                                 \ LowerCategoryNames(mergeOld))
           /\ \A c \in 1..Len(mergeOld) :
                 LET oldItems == ItemsOf(mergeOld[c])
                     incoming == IF IsFirstCategory(mergeOld, c)
                                 THEN IncomingFor(mergeNew, mergeOld[c])
                                 ELSE <<>>
                 IN /\ Get(R[c], "category") = Get(mergeOld[c], "category")
                    /\ Len(R[c].items) = Len(oldItems)
                          + Cardinality(LowerItemNames(incoming)
                                          \ LowerItemNames(oldItems))
                    /\ \A i \in 1..Len(oldItems) :
                          LET forItem == IF IsFirstItem(oldItems, i)
                                         THEN incoming ELSE <<>>
                          IN /\ Get(R[c].items[i], "name")
                                  = Get(oldItems[i], "name")
                             /\ \A f \in ItemFields :
                                   Get(R[c].items[i], f)
                                     = ExpectedField(oldItems[i], forItem, f)

\* "pizza"/"margherita" with price "" and notes "Classic" merged into
\* "Pizza"/"Margherita" at "$10": one category, one item, "$10", "Classic".
C7_Witness ==
    /\ Merged1
    /\ mergeOld = <<CatPizza>>
    /\ mergeNew = <<CatPizzaLower>>
    /\ mergeOut[1].merged =
          <<[category |-> "Pizza",
             items |-> <<[name |-> "Margherita", price |-> "$10",
                          notes |-> "Classic"]>>]>>

\* C8: mergeMenus(mergeMenus(M, N), N) = mergeMenus(M, N): the second call
\* with the same incoming menu returns what the first call returned (stated
\* here for menus M and N without null entries only).
C8_MergeTwiceEqualsOnce ==
    (Len(mergeOut) = 2 /\ WellFormed(mergeOld) /\ WellFormed(mergeNew)) =>
        /\ ~mergeOut[2].threw
        /\ mergeOut[2].merged = mergeOut[1].merged

\* The categories of menu R are those of menu N, in order, by name, each
\* with the same items in the same order.
SameCategoriesAndItems(R, N) ==
    /\ Len(R) = Len(N)
    /\ \A c \in 1..Len(N) :
          /\ Get(R[c], "category") = Get(N[c], "category")
          /\ ItemsOf(R[c]) = ItemsOf(N[c])

AllNamed(menu) == \A c \in 1..Len(menu) : "category" \in DOMAIN menu[c]

\* C9 as stated: for every menu N, mergeMenus([], N) returns the categories
\* of N in order, each with the items of N in order (stated here for menus
\* without null entries whose categories all have a name).
C9_MergeIntoEmptyReturnsNew ==
    (Merged1 /\ mergeOld = <<>> /\ WellFormed(mergeNew) /\ AllNamed(mergeNew)) =>
        SameCategoriesAndItems(mergeOut[1].merged, mergeNew)

DistinctCategoryNames(menu) ==
    \A c, d \in 1..Len(menu) :
        c # d => ~SameCategoryName(menu[c], menu[d])

\* C9 amended: for every menu N no two of whose categories have the same
\* name ignoring case (two missing names being the same name),
\* mergeMenus([], N) returns the categories of N in order, by name, each with
\* the items of N in order (an empty list for a category without items).
C9_MergeIntoEmptyDistinctNames ==
    (Merged1 /\ mergeOld = <<>> /\ DistinctCategoryNames(mergeNew)) =>
        SameCategoriesAndItems(mergeOut[1].merged, mergeNew)

C9_Witness ==
    /\ Merged1
    /\ mergeOld = <<>>
    /\ mergeNew = <<CatPizzaTwice, CatPasta>>
    /\ mergeOut[1].merged = <<CatPizzaTwice, CatPasta>>

-----------------------------------------------------------------------------
(* Properties of the server (Spec) *)

\* The last request was an upsert that was answered (nothing was raised).
UpsertAnswered(l) == l.op = "upsert" /\ l.status = "answered"

HasArray(data, k) == k \in DOMAIN data /\ IsArray(data[k])

\* C1: in every reachable state the id of each stored record is the key it
\* is stored under.
C1_IdEqualsKey ==
    \A k \in DOMAIN restaurants : Get(restaurants[k], "id") = k

\* C2: no stored record has a replace or replaceOffers field.
C2_NoControlFlagStored ==
    \A k \in DOMAIN restaurants : DOMAIN restaurants[k] \cap ControlFlags = {}

\* C3: an upsert that fails while it computes the new record (mergeMenus
\* raises) leaves every stored record exactly as it was before the call.
C3_FailedUpsertKeepsRecord ==
    [][(last'.op = "upsert" /\ last'.status = "threw")
          => restaurants' = restaurants]_vars

\* C4: an upsert with a menu N and a truthy replace stores N; an upsert with
\* a menu and no truthy replace stores the merge of the stored menu with it;
\* so upsert(id, {menu: N, replace: true}) followed by upsert(id, {menu: M2})
\* leaves mergeMenus(N, M2), whenever that merge returns.
C4_ReplaceThenMerge ==
    [][UpsertAnswered(last') /\ HasArray(last'.data, "menu") =>
         LET id == last'.id
             M2 == last'.data.menu.arr
         IN IF TruthyFlag(last'.data, "replace")
            THEN restaurants'[id].menu = M2
            ELSE (/\ UpsertAnswered(last)
                  /\ last.id = id
                  /\ HasArray(last.data, "menu")
                  /\ TruthyFlag(last.data, "replace"))
                 => restaurants'[id].menu
                      = mergeMenus(last.data.menu.arr, M2).merged]_vars

\* replace with "Pizza"/"Margherita" at "$10", then the merge of
\* "pizza"/"margherita" with notes "Classic": the stored menu is the merge,
\* not the second menu.
C4_Witness ==
    /\ nops = 2
    /\ UpsertAnswered(last)
    /\ last.data = [menu |-> Arr(MenuPizzaLower)]
    /\ file = DocObject(<<"r1">>,
                [r1 |-> [id |-> "r1", faq |-> <<>>, offers |-> <<>>,
                         menu |->
                           <<[category |-> "Pizza",
                              items |-> <<[name |-> "Margherita",
                                           price |-> "$10",
                                           notes |-> "Classic"]>>]>>]])
    /\ restaurants["r1"].menu # MenuPizzaLower

\* The offers of the record stored under id, before an upsert creates it.
StoredOffers(map, id) ==
    IF id \in DOMAIN map THEN OffersOrEmpty(map[id]) ELSE <<>>

\* C5: an upsert whose offers are a sequence stores, without a truthy
\* replaceOffers, the existing offers followed by the offers of the patch, in
\* order and without de-duplication, and with a truthy replaceOffers the
\* offers of the patch exactly.
C5_OffersAppendOrReplace ==
    [][UpsertAnswered(last') /\ HasArray(last'.data, "offers") =>
         LET id == last'.id
             patchOffers == last'.data.offers.arr
             stored == restaurants'[id].offers
         IN IF TruthyFlag(last'.data, "replaceOffers")
            THEN stored = patchOffers
            ELSE /\ Len(stored) = Len(StoredOffers(restaurants, id))
                                    + Len(patchOffers)
                 /\ SubSeq(stored, 1, Len(StoredOffers(restaurants, id)))
                      = StoredOffers(restaurants, id)
                 /\ SubSeq(stored, Len(StoredOffers(restaurants, id)) + 1,
                           Len(stored)) = patchOffers]_vars

\* [A] then the patch [B, A] without replaceOffers: [A, B, A].
C5_Witness ==
    /\ UpsertAnswered(last)
    /\ last.data = [offers |-> Arr(<<OfferB, OfferA>>)]
    /\ restaurants["r1"].offers = <<OfferA, OfferB, OfferA>>

\* Field k is the same in records a and b: missing in both, or equal.
SameField(a, b, k) ==
    /\ (k \in DOMAIN a) = (k \in DOMAIN b)
    /\ k \in DOMAIN a => a[k] = b[k]

\* C6 as stated: an upsert of an existing record whose patch has no menu
\* array leaves the stored menu unchanged, and one whose patch has no offers
\* array leaves the stored offers unchanged.
C6_AbsentFieldsUnchanged ==
    [][(UpsertAnswered(last') /\ last'.id \in DOMAIN restaurants) =>
         LET id == last'.id
         IN /\ ~HasArray(last'.data, "menu")
                 => SameField(restaurants'[id], restaurants[id], "menu")
            /\ ~HasArray(last'.data, "offers")
                 => SameField(restaurants'[id], restaurants[id], "offers")]_vars

\* C6 amended: an upsert of an existing record whose patch has no menu array
\* leaves the stored menu unchanged (a record without a menu stays without
\* one); one whose patch has no offers array leaves the stored offers
\* unchanged when the record has offers and stores an empty offers sequence
\* when it has none; whatever replace, replaceOffers and the other fields of
\* the patch are.
C6_AbsentFieldsUnchangedOrDefaulted ==
    [][(UpsertAnswered(last') /\ last'.id \in DOMAIN restaurants) =>
         LET id == last'.id
         IN /\ ~HasArray(last'.data, "menu")
                 => SameField(restaurants'[id], restaurants[id], "menu")
            /\ ~HasArray(last'.data, "offers")
                 => /\ "offers" \in DOMAIN restaurants'[id]
                    /\ restaurants'[id].offers
                         = IF "offers" \in DOMAIN restaurants[id]
                           THEN restaurants[id].offers ELSE <<>>]_vars

\* A patch with both flags and other fields but neither menu nor offers, on
\* the record of Roma: its menu and its offers are as in the file.
C6_Witness ==
    /\ nops = 1
    /\ UpsertAnswered(last)
    /\ last.data = [replace |-> TRUE, replaceOffers |-> TRUE, id |-> "r9",
                    name |-> "Nove"]
    /\ "r1" \in DOMAIN restaurants
    /\ restaurants["r1"] = [RecRoma EXCEPT !.name = "Nove"]

\* C10: when the write of restaurants.json fails in an upsert, the map holds
\* the updated record, the caller is answered 200 with that record, and the
\* file is as it was.
C10_SaveFailureKeepsUpdate ==
    [][(UpsertAnswered(last') /\ last'.save = "mainFailed") =>
         LET id == last'.id
             existing == IF id \in DOMAIN restaurants THEN restaurants[id]
                         ELSE DefaultRecord(id)
             updated == UpdatedRecord(existing, last'.data, id,
                                      FinalMenu(existing, last'.data),
                                      FinalOffers(existing, last'.data))
         IN /\ restaurants'[id] = updated
            /\ \A k \in DOMAIN restaurants \ {id} :
                  k \in DOMAIN restaurants' /\ restaurants'[k] = restaurants[k]
            /\ last'.response = [status |-> 200, body |-> updated]
            /\ file' = file]_vars

\* The save failed, the answer is 200 with the record in the map, and the
\* file does not hold the map.
C10_Witness ==
    /\ UpsertAnswered(last)
    /\ last.save = "mainFailed"
    /\ last.data = [offers |-> Arr(<<OfferA>>)]
    /\ last.response = [status |-> 200, body |-> restaurants["r1"]]
    /\ restaurants["r1"].offers = <<OfferA, OfferA>>
    /\ file # Stringify(FALSE, order, restaurants)

-----------------------------------------------------------------------------
(* Properties of rescan-all (Spec) *)

\* The step is a rescan-all request that ran to its end (answered 200).
RescanStep ==
    /\ nops' = nops + 1
    /\ last'.op = "rescan"
    /\ last'.response.status = 200

\* The outcome of the three fetches made for record r, x being their answers.
MetaFetched(r, x) ==
    /\ Truthy(Get(r, "metaSourceUrl"))
    /\ ~Threw(x.meta) /\ "error" \notin DOMAIN x.meta
    /\ "metadata" \in DOMAIN x.meta

MenuFetched(r, x) ==
    /\ Truthy(Get(r, "menuSourceUrl"))
    /\ ~Threw(x.menu) /\ "error" \notin DOMAIN x.menu
    /\ "menu" \in DOMAIN x.menu /\ IsArray(x.menu.menu)

OffersFetched(r, x) ==
    /\ Truthy(Get(r, "offersSourceUrl"))
    /\ ~Threw(x.offers) /\ "error" \notin DOMAIN x.offers
    /\ "offers" \in DOMAIN x.offers /\ IsArray(x.offers.offers)

\* Field k of the record stored under key holds v.
StoredField(map, key, k, v) ==
    /\ key \in DOMAIN map
    /\ k \in DOMAIN map[key]
    /\ map[key][k] = v

\* C11: after rescan-all, every record whose menu fetch succeeded holds the
\* fetched menu exactly, and every record whose offers fetch succeeded holds
\* the fetched offers exactly.
C11_RescanReplacesMenuAndOffers ==
    [][RescanStep =>
         \A k \in 1..Len(order) :
            LET key == order[k]
                r == restaurants[key]
                x == last'.answers[k]
            IN /\ MenuFetched(r, x) =>
                    StoredField(restaurants', key, "menu", x.menu.menu.arr)
               /\ OffersFetched(r, x) =>
                    StoredField(restaurants', key, "offers",
                                x.offers.offers.arr)]_vars

\* The fields of a record that neither the menu fetch nor the offers fetch
\* writes: those the metadata fetch may write.
MetaFields(a, b) ==
    (DOMAIN a \cup DOMAIN b) \ ({"menu", "offers"} \cup ControlFlags)

\* One of the fetches configured for record r failed.
SomeFetchFailed(r, x) ==
    \/ Truthy(Get(r, "metaSourceUrl")) /\ ~MetaFetched(r, x)
    \/ Truthy(Get(r, "menuSourceUrl")) /\ ~MenuFetched(r, x)
    \/ Truthy(Get(r, "offersSourceUrl")) /\ ~OffersFetched(r, x)

\* What the rescan leaves of the record stored under key, r being the record
\* before and x the answers of its fetches: the fields of a failed fetch as
\* they were, the fields of a fetch that succeeded as fetched.
FetchesApplied(map, key, r, x) ==
    /\ key \in DOMAIN map
    /\ (Truthy(Get(r, "metaSourceUrl")) /\ ~MetaFetched(r, x)) =>
          \A f \in MetaFields(r, map[key]) : SameField(r, map[key], f)
    /\ (Truthy(Get(r, "menuSourceUrl")) /\ ~MenuFetched(r, x)) =>
          SameField(r, map[key], "menu")
    /\ (Truthy(Get(r, "offersSourceUrl")) /\ ~OffersFetched(r, x)) =>
          SameField(r, map[key], "offers")
    /\ MetaFetched(r, x) =>
          \A f \in DOMAIN x.meta.metadata \ {"menu", "offers"} :
              f \in DOMAIN map[key] /\ map[key][f] = x.meta.metadata[f]
    /\ MenuFetched(r, x) =>
          StoredField(map, key, "menu", x.menu.menu.arr)
    /\ OffersFetched(r, x) =>
          StoredField(map, key, "offers", x.offers.offers.arr)

\* C12: in a rescan-all in which a fetch of some record failed, every record
\* keeps the fields of its failed fetches unchanged and gets the fields of
\* its fetches that succeeded, the records after the one with the failure
\* included, and every record has its entry in the summary.
C12_FailedFetchIsolated ==
    [][(/\ RescanStep
        /\ \E j \in 1..Len(order) :
              SomeFetchFailed(restaurants[order[j]], last'.answers[j]))
         => /\ Len(last'.response.body.results) = Len(order)
            /\ \A k \in 1..Len(order) :
                  FetchesApplied(restaurants', order[k],
                                 restaurants[order[k]], last'.answers[k])]_vars

\* C13 as stated: the summary of rescan-all has, for every record, updated
\* true exactly when the stored record differs after the rescan from what it
\* was before.
C13_UpdatedIffRecordDiffers ==
    [][RescanStep =>
         LET results == last'.response.body.results
         IN /\ Len(results) = Len(order)
            /\ \A k \in 1..Len(order) :
                  results[k].updated
                    = (restaurants'[order[k]] # restaurants[order[k]])]_vars

\* C13 amended: the summary has, for every record in order, the record's id
\* and updated true exactly when the rescan collected at least one field to
\* write for it: a field of fetched metadata, a fetched menu or fetched
\* offers, whether or not the values differ from the stored ones.
C13_UpdatedIffFieldsCollected ==
    [][RescanStep =>
         LET results == last'.response.body.results
         IN /\ Len(results) = Len(order)
            /\ \A k \in 1..Len(order) :
                  LET r == restaurants[order[k]]
                      x == last'.answers[k]
                  IN /\ results[k].id = Get(r, "id")
                     /\ results[k].updated
                          = \/ MetaFetched(r, x)
                               /\ DOMAIN x.meta.metadata # {}
                            \/ MenuFetched(r, x)
                            \/ OffersFetched(r, x)]_vars

\* The same menu fetched twice for the record of Roma: the second rescan
\* leaves the record as it was and reports updated: true.
C13_Witness ==
    /\ nops = 2
    /\ last.op = "rescan"
    /\ last.response.status = 200
    /\ last.response.body.results = <<[id |-> "r1", updated |-> TRUE]>>
    /\ last.answers = <<[meta |-> FetchThrew,
                         menu |-> [menu |-> Arr(MenuPasta)],
                         offers |-> FetchThrew]>>
    /\ restaurants = [r1 |-> [RecRoma EXCEPT !.menu = MenuPasta]
                               @@ [replace |-> TRUE]]
    /\ file = Stringify(FALSE, order, restaurants)

-----------------------------------------------------------------------------
(* Properties of offerIsActive and getActiveOffers (SpecOffers) *)

\* offerIsActive has been called on the offers of actRec, none of them null.
IsActiveCalled ==
    /\ "isActive" \in DOMAIN actOut
    /\ \A i \in 1..Len(actRec.offers.arr) : ~IsNull(actRec.offers.arr[i])

\* The text is "HH:MM": two digits, a colon, two digits.
IsHHMM(text) ==
    /\ Len(text) = 5
    /\ text[3] = ":"
    /\ \A i \in {1, 2, 4, 5} : text[i] \in DigitChars

\* The minutes since midnight that "HH:MM" names.
ClockMinutes(text) ==
    ((CharCode[text[1]] - 48) * 10 + (CharCode[text[2]] - 48)) * 60
      + (CharCode[text[4]] - 48) * 10 + (CharCode[text[5]] - 48)

\* The window of an offer in minutes since midnight, 00:00 and 23:59 standing
\* for a start and an end that are missing.
WindowStart(o) ==
    IF HasText(o, "startTime") THEN ClockMinutes(o.startTime) ELSE 0

WindowEnd(o) ==
    IF HasText(o, "endTime") THEN ClockMinutes(o.endTime) ELSE 23 * 60 + 59

TimesSet(o) ==
    /\ HasText(o, "startTime") \/ HasText(o, "endTime")
    /\ HasText(o, "startTime") => IsHHMM(o.startTime)
    /\ HasText(o, "endTime") => IsHHMM(o.endTime)

\* C14: an offer with a startTime or an endTime ("HH:MM") that passes the
\* date check and the weekday check is active exactly when
\* start <= minutes since midnight of now <= end, both bounds included, a
\* missing start being 00:00 and a missing end 23:59; so a window whose end
\* is before its start is never active, and getActiveOffers returns a
\* 16:00-18:00 offer without weekdays at 17:00 and not at 19:00.
C14_TimeWindowInclusive ==
    /\ IsActiveCalled =>
          \A i \in 1..Len(actRec.offers.arr) :
             LET o == actRec.offers.arr[i]
                 nowMinutes == actNow.hours * 60 + actNow.minutes
             IN (/\ TimesSet(o)
                 /\ DateWindowOk(o, actNow.today)
                 /\ DaysOk(o, actNow.day))
                => /\ ~actOut.isActive[i].threw
                   /\ actOut.isActive[i].value
                        = (WindowStart(o) <= nowMinutes
                           /\ nowMinutes <= WindowEnd(o))
                   /\ WindowEnd(o) < WindowStart(o)
                        => ~actOut.isActive[i].value
    /\ ("active" \in DOMAIN actOut /\ "offers" \in DOMAIN actRec
        /\ actRec.offers = Arr(<<HappyHour>>) /\ actNow.minutes = 0)
       => /\ actNow.hours = 17 => actOut.active.value = <<HappyHour>>
          /\ actNow.hours = 19 => actOut.active.value = <<>>

\* The 16:00-18:00 offer at 18:00, the last minute of its window.
C14_Witness ==
    /\ IsActiveCalled
    /\ "active" \in DOMAIN actOut
    /\ actRec.offers = Arr(<<HappyHour>>)
    /\ actNow.hours = 18 /\ actNow.minutes = 0
    /\ actOut.isActive[1].value
    /\ actOut.active.value = <<HappyHour>>

\* C15: an offer whose startDate and endDate are both set, with
\* startDate > endDate, is active at no instant.
C15_EmptyDateWindowNeverActive ==
    IsActiveCalled =>
       \A i \in 1..Len(actRec.offers.arr) :
          LET o == actRec.offers.arr[i]
          IN (/\ HasText(o, "startDate") /\ HasText(o, "endDate")
              /\ StrLess(o.endDate, o.startDate))
             => /\ ~actOut.isActive[i].threw
                /\ ~actOut.isActive[i].value

\* An offer from 1 February to 31 January without any other window, on
\* 1 February.
C15_Witness ==
    /\ IsActiveCalled
    /\ actRec.offers =
          Arr(<<[title |-> "Deal", startDate |-> Feb01, endDate |-> Jan31]>>)
    /\ actNow.today = Feb01
    /\ ~actOut.isActive[1].value

\* The offer has no daysOfWeek, or an empty one.
NoWeekdays(o) ==
    \/ "daysOfWeek" \notin DOMAIN o
    \/ IsArray(o.daysOfWeek) /\ Len(o.daysOfWeek.arr) = 0

\* C16: for an offer whose daysOfWeek is empty or absent, isActive is the
\* outcome of the date check and of the time check alone, and is the same at
\* every instant with the same date and the same clock time, whatever the
\* weekday.
C16_NoWeekdaysIgnoresWeekday ==
    IsActiveCalled =>
       \A i \in 1..Len(actRec.offers.arr) :
          LET o == actRec.offers.arr[i]
          IN NoWeekdays(o)
             => /\ ~actOut.isActive[i].threw
                /\ actOut.isActive[i].value
                     = (DateWindowOk(o, actNow.today)
                        /\ TimeWindowOk(o, actNow))
                /\ \A d \in 0..6 :
                      offerIsActive(o, [actNow EXCEPT !.day = d])
                        = actOut.isActive[i]

\* An offer with an empty daysOfWeek and no other window, on a Saturday.
C16_Witness ==
    /\ IsActiveCalled
    /\ actRec.offers = Arr(<<[title |-> "Deal", daysOfWeek |-> Arr(<<>>)]>>)
    /\ actNow.day = 6
    /\ actOut.isActive[1].value

\* The indices of the offers that are active at now.
ActiveIndices(offers, now) ==
    {i \in 1..Len(offers) : offerIsActive(offers[i], now).value}

\* seq holds the offers of the active indices, in the order of the indices,
\* and nothing else.
IsActiveSubsequence(seq, offers, now) ==
    LET idx == ActiveIndices(offers, now)
    IN /\ Len(seq) = Cardinality(idx)
       /\ \A i \in idx :
             seq[Cardinality({j \in idx : j <= i})] = offers[i]

\* C17: getActiveOffers returns the offers of the restaurant that are active
\* at now, in their order and nothing else, and the empty sequence when the
\* restaurant has no offers or offers that are not an array; the context of
\* a chat request holds the fields of the restaurant and, as activeOffers,
\* that sequence.
C17_ActiveOffersInOrder ==
    LET noArray == "offers" \notin DOMAIN actRec \/ ~IsArray(actRec.offers)
        noNull == \A i \in 1..Len(actRec.offers.arr) :
                     ~IsNull(actRec.offers.arr[i])
    IN /\ "active" \in DOMAIN actOut =>
            IF noArray
            THEN actOut.active = [threw |-> FALSE, value |-> <<>>]
            ELSE noNull =>
                   /\ ~actOut.active.threw
                   /\ IsActiveSubsequence(actOut.active.value,
                                          actRec.offers.arr, actNow)
       /\ "context" \in DOMAIN actOut =>
            IF noArray
            THEN /\ ~actOut.context.threw
                 /\ actOut.context.context = actRec @@ [activeOffers |-> <<>>]
            ELSE noNull =>
                   /\ ~actOut.context.threw
                   /\ IsActiveSubsequence(actOut.context.context.activeOffers,
                                          actRec.offers.arr, actNow)
                   /\ \A k \in DOMAIN actRec :
                         actOut.context.context[k] = actRec[k]

\* A list whose first offer is not active on a Saturday and whose second is
\* active at 17:00.
C17_Witness ==
    /\ "active" \in DOMAIN actOut
    /\ "context" \in DOMAIN actOut
    /\ "offers" \in DOMAIN actRec
    /\ actRec.offers = Arr(<<FridayDeal, HappyHour>>)
    /\ actNow.day = 6 /\ actNow.hours = 17
    /\ actOut.active.value = <<HappyHour>>
    /\ actOut.context.context.activeOffers = <<HappyHour>>

-----------------------------------------------------------------------------
(* Properties of the chat route (SpecChat) *)

\* The step is a chat request.
ChatStep == nops' = nops + 1 /\ last'.op = "chat"

\* The link of a record that the fallback offers: its maps URL, else the URL
\* of its first ordering link, else none ("").
ContactLink(r) ==
    IF "googleMapsUrl" \in DOMAIN r /\ r.googleMapsUrl # ""
    THEN r.googleMapsUrl
    ELSE IF "orderingLinks" \in DOMAIN r /\ r.orderingLinks # <<>>
            /\ "url" \in DOMAIN Head(r.orderingLinks)
         THEN Head(r.orderingLinks).url
    ELSE ""

\* The clause that goes with the contact fields of a record.
ContactClause(r) ==
    LET hasPhone == "phone" \in DOMAIN r /\ r.phone # ""
        hasLink == ContactLink(r) # ""
    IN CASE hasPhone /\ hasLink ->
              <<" You can call us at ", r.phone, " or visit ",
                ContactLink(r), ".">>
         [] hasPhone /\ ~hasLink ->
              <<" You can call the restaurant at ", r.phone, ".">>
         [] ~hasPhone /\ hasLink ->
              <<" You can visit our website here: ", ContactLink(r), ".">>
         [] OTHER -> <<>>

\* C18: when the completion fails for a chat request on a restaurant of the
\* store, the request is answered 200 with the inability sentence followed
\* by the one clause that goes with the record's phone and link (none when
\* it has neither), flagged as an internal error.
C18_FallbackReplyOnFailure ==
    [][(/\ ChatStep
        /\ last'.called
        /\ last'.completion # "reply"
        /\ "restaurantId" \in DOMAIN last'.body
        /\ last'.body.restaurantId \in DOMAIN restaurants)
         => LET r == restaurants[last'.body.restaurantId]
            IN /\ last'.response.status = 200
               /\ last'.response.body.reply
                    = <<SorryText>> \o ContactClause(r)
               /\ "error" \in DOMAIN last'.response.body]_vars

\* The completion fails for Roma, which has a phone and a maps URL.
C18_Witness ==
    /\ last.op = "chat"
    /\ last.called
    /\ last.completion = "failed"
    /\ last.body.restaurantId = "r1"
    /\ last.response.status = 200
    /\ last.response.body.reply
         = <<SorryText, " You can call us at ", "555-0100", " or visit ",
             "https://maps.example/roma", ".">>

\* C19: a chat request whose restaurantId is missing or is not the key of a
\* record of the store (the store being a map) is answered 404 "Restaurant
\* not found" without the completion being requested, without a line added
\* to the chat log and with the store as it was.
C19_UnknownRestaurantRejected ==
    [][(/\ ChatStep
        /\ ~storeIsNull
        /\ \/ "restaurantId" \notin DOMAIN last'.body
           \/ last'.body.restaurantId \notin DOMAIN restaurants)
         => /\ last'.response.status = 404
            /\ "error" \in DOMAIN last'.response.body
            /\ ~last'.called
            /\ chatLog' = chatLog
            /\ restaurants' = restaurants
            /\ file' = file]_vars

(***************************************************************************)
(* Properties of loadRestaurants at start (Spec)                           *)
(***************************************************************************)

\* The server has just started from a file holding a JSON array.
LoadedArray == nops = 0 /\ file.kind = "json" /\ file.t = "array"

\* The server has just started from a file holding a JSON object.
LoadedObject == nops = 0 /\ file.kind = "json" /\ file.t = "object"

\* The positions of the array whose element has an id (a non-empty one).
WithId(elems) ==
    {i \in 1..Len(elems) : "id" \in DOMAIN elems[i] /\ elems[i].id # ""}

\* The keys of the store are the ids of the array, each once, in the order
\* of their first elements; the keyed object is taken as it is.
LoadedKeys ==
    /\ LoadedArray =>
          /\ DOMAIN restaurants = {file.elems[i].id : i \in WithId(file.elems)}
          /\ Len(order) = Cardinality(DOMAIN restaurants)
          /\ \A k \in 1..Len(order) : order[k] \in DOMAIN restaurants
    /\ LoadedObject => restaurants = file.map /\ order = file.keys

\* C20 as stated: after loading a legacy array every element that has an id
\* is the record stored under that id and the store has no other key; after
\* loading a keyed object the store holds its records under its keys.
C20_LoadStoresEveryElement ==
    /\ LoadedKeys
    /\ LoadedArray =>
          \A i \in WithId(file.elems) :
             restaurants[file.elems[i].id] = file.elems[i]

\* C20 amended: the same, except that of the elements sharing an id the
\* last one is the record stored.
C20_LoadStoresLastElementOfEachId ==
    /\ LoadedKeys
    /\ LoadedArray =>
          \A i \in WithId(file.elems) :
             (\A j \in WithId(file.elems) :
                 file.elems[j].id = file.elems[i].id => j <= i)
               => restaurants[file.elems[i].id] = file.elems[i]

\* Started from the array of five elements: null and the element without
\* an id are dropped, and r1 is the second of the two elements with id r1.
C20_Witness ==
    /\ LoadedArray
    /\ Len(file.elems) = 5
    /\ \E i, j \in WithId(file.elems) :
          i < j /\ file.elems[i].id = file.elems[j].id
    /\ restaurants = [r1 |-> [id |-> "r1", name |-> "Roma II"], r2 |-> RecNapoli]
    /\ order = <<"r1", "r2">>

(***************************************************************************)
(* Properties of mergeMenus: its arguments and the order of its result     *)
(* (SpecMerge)                                                             *)
(***************************************************************************)

\* C22: mergeMenus leaves both arguments unchanged.  After the call, and
\* after a later call that updates the items of its result, the array passed
\* as oldMenu and the array passed as newMenu hold what they held before the
\* first call: the same categories with the same items, each item with the
\* same price, notes and image.
C22_MergeLeavesArgumentsUnchanged ==
    Len(mergeOut) >= 1 =>
        /\ mergeHeldOld = mergeOld
        /\ mergeHeldNew = mergeNew

\* The items that the categories of menu from position j on bring to the
\* category c: the items of those of the same name, in order.
RECURSIVE IncomingFrom(_, _, _)
IncomingFrom(menu, c, j) ==
    IF j > Len(menu) THEN <<>>
    ELSE (IF SameCategoryName(menu[j], c) THEN ItemsOf(menu[j]) ELSE <<>>)
           \o IncomingFrom(menu, c, j + 1)

\* The positions of `incoming` whose item has the name of no item of `base`
\* and of no earlier item of `incoming`.
NewItemPositions(base, incoming) ==
    {k \in 1..Len(incoming) :
        /\ \A i \in 1..Len(base) : ~SameItemName(base[i], incoming[k])
        /\ IsFirstItem(incoming, k)}

\* `items` is `base` item for item, by name, followed by the new items of
\* `incoming` in the order of `incoming`, and by nothing else.
BaseThenNew(items, base, incoming) ==
    LET new == NewItemPositions(base, incoming)
    IN /\ Len(items) = Len(base) + Cardinality(new)
       /\ \A i \in 1..Len(base) :
             Get(items[i], "name") = Get(base[i], "name")
       /\ \A k \in new :
             Get(items[Len(base) + Cardinality({m \in new : m <= k})], "name")
               = Get(incoming[k], "name")

\* The positions of newMenu whose category has the name of no category of
\* oldMenu and of no earlier category of newMenu.
NewCategoryPositions(oldMenu, newMenu) ==
    {j \in 1..Len(newMenu) :
        /\ \A c \in 1..Len(oldMenu) : ~SameCategoryName(oldMenu[c], newMenu[j])
        /\ IsFirstCategory(newMenu, j)}

\* C23: for menus without null entries, the result of mergeMenus(old, new)
\* has the categories of old at their positions, each with the items of old
\* at their positions followed by the new items in the order of new (which
\* go to the first of the categories of old of that name), and after them the new categories in the order of new, each with the items of
\* its first occurrence followed by the new items of the later ones.
C23_OldKeepsPositionsNewAppended ==
    (Merged1 /\ WellFormed(mergeOld) /\ WellFormed(mergeNew)) =>
        LET merged == mergeOut[1].merged
            new == NewCategoryPositions(mergeOld, mergeNew)
        IN /\ Len(merged) = Len(mergeOld) + Cardinality(new)
           /\ \A c \in 1..Len(mergeOld) :
                 /\ Get(merged[c], "category") = Get(mergeOld[c], "category")
                 /\ BaseThenNew(merged[c].items, ItemsOf(mergeOld[c]),
                                IF IsFirstCategory(mergeOld, c)
                                THEN IncomingFrom(mergeNew, mergeOld[c], 1)
                                ELSE <<>>)
           /\ \A j \in new :
                 LET p == Len(mergeOld) + Cardinality({m \in new : m <= j})
                 IN /\ Get(merged[p], "category") = Get(mergeNew[j], "category")
                    /\ BaseThenNew(merged[p].items, ItemsOf(mergeNew[j]),
                                   IncomingFrom(mergeNew, mergeNew[j], j + 1))

\* Pizza and its Margherita stay first, Marinara is put after Margherita
\* although it comes before it in the incoming category, and Pasta is put
\* after Pizza although it comes first in the incoming menu.
C23_Witness ==
    /\ Merged1
    /\ mergeOld = <<CatPizza>>
    /\ mergeNew = <<CatPasta, CatPizzaMore>>
    /\ mergeOut[1].merged =
         <<[category |-> "Pizza",
            items |-> <<[name |-> "Margherita", price |-> "$11"],
                        [name |-> "Marinara", price |-> "$9"]>>],
           CatPasta>>

(***************************************************************************)
(* Properties of offerIsActive across time zones (SpecOffers)              *)
(***************************************************************************)

\* C27: an offer with startDate = endDate = D is active only at instants
\* whose local calendar date is D, whatever the offset of the server's
\* local time from UTC.
C27_ActiveOnlyOnLocalDate ==
    (IsActiveCalled /\ "localDate" \in DOMAIN actNow) =>
        \A i \in 1..Len(actRec.offers.arr) :
            LET o == actRec.offers.arr[i]
            IN (/\ ~IsNull(o)
                /\ "startDate" \in DOMAIN o
                /\ "endDate" \in DOMAIN o
                /\ o.startDate = o.endDate
                /\ ~actOut.isActive[i].threw
                /\ actOut.isActive[i].value)
                 => actNow.localDate = o.startDate

(***************************************************************************)
(* Properties of the store after start-up (Spec)                           *)
(***************************************************************************)

\* C28: whatever restaurants.json holds, the variable restaurants holds a
\* map after start-up and ever after, so that no request fails on reading
\* restaurants[id] or Object.values(restaurants).
C28_StoreIsAlwaysAMap == ~storeIsNull

(***************************************************************************)
(* Properties of requests in flight (SpecAsync)                            *)
(***************************************************************************)

\* The step is the end of the await `op` of the request last'.q.
AwaitEnds(op) == reqs' # reqs /\ last'.op = op

\* What the handler of req answers when its save has gone well.
AnswerOfGoodSave(req) ==
    [status |-> 200,
     body |-> IF req.kind = "upsert" THEN req.updated
              ELSE [ok |-> TRUE, results |-> req.results]]

\* C21: a save whose write of restaurants.json succeeds goes on to write
\* the same text to the backup file named for the date of that moment; a
\* backup that fails (at mkdir or at the write) leaves restaurants.json and
\* the map as they are and the request is answered as after a good save;
\* a save whose write of restaurants.json fails ends there, and no backup
\* file is ever written on its behalf.
C21_BackupFollowsMainWrite ==
    [][/\ (AwaitEnds("mainWrite") /\ last'.ok) =>
             /\ file' = reqs[last'.q].json
             /\ reqs'[last'.q].pc = "mkdir"
       /\ (AwaitEnds("mainWrite") /\ ~last'.ok) =>
             /\ reqs'[last'.q].pc = "done"
             /\ backups' = backups
       /\ (AwaitEnds("mkdir") /\ last'.ok) =>
             /\ reqs'[last'.q].pc = "backup"
             /\ reqs'[last'.q].path = clockDate
       /\ (AwaitEnds("backupWrite") /\ last'.ok) =>
             /\ reqs[last'.q].path \in DOMAIN backups'
             /\ backups'[reqs[last'.q].path] = reqs[last'.q].json
             /\ \A d \in DOMAIN backups' \ {reqs[last'.q].path} :
                   d \in DOMAIN backups /\ backups'[d] = backups[d]
             /\ reqs'[last'.q].response = AnswerOfGoodSave(reqs[last'.q])
       /\ ((AwaitEnds("mkdir") \/ AwaitEnds("backupWrite")) /\ ~last'.ok) =>
             /\ file' = file
             /\ backups' = backups
             /\ restaurants' = restaurants
             /\ reqs'[last'.q].pc = "done"
             /\ reqs'[last'.q].response = AnswerOfGoodSave(reqs[last'.q])
       /\ backups' # backups => (AwaitEnds("backupWrite") /\ last'.ok)
       /\ \A q \in 1..Len(reqs) :
             reqs[q].save = "mainFailed" => reqs'[q] = reqs[q]]_vars

\* A save written on 31 January and, after midnight, a save whose backup
\* went to the file of 1 February, and a request answered 200 although its
\* backup failed.
C21_Witness ==
    /\ Len(reqs) = 2
    /\ reqs[1].save = "saved" /\ reqs[1].path = Jan31
    /\ reqs[2].save = "backupFailed" /\ reqs[2].response.status = 200
    /\ clockDate = Feb01
    /\ DOMAIN backups = {Jan31}
    /\ backups[Jan31] = reqs[1].json
    /\ file = reqs[2].json

\* The store after the upsert (id, data) served on its own.
SerialUpsert(store, id, data) ==
    LET existing == IF id \in DOMAIN store.map THEN store.map[id]
                    ELSE DefaultRecord(id)
        updated == UpdatedRecord(existing, data, id, FinalMenu(existing, data),
                                 FinalOffers(existing, data))
    IN [keys |-> IF id \in DOMAIN store.map THEN store.keys
                 ELSE Append(store.keys, id),
        map |-> (id :> updated) @@ store.map]

\* The store after the upserts reqs[p[k]], ..., reqs[p[n]] served one after
\* another.
RECURSIVE SerialFrom(_, _, _)
SerialFrom(store, p, k) ==
    IF k > Len(reqs) THEN store
    ELSE SerialFrom(SerialUpsert(store, reqs[p[k]].id, reqs[p[k]].data),
                    p, k + 1)

Orders(n) ==
    {p \in [1..n -> 1..n] : \A i, j \in 1..n : p[i] = p[j] => i = j}

AllUpsertsAnswered ==
    /\ Len(reqs) >= 2
    /\ \A q \in 1..Len(reqs) : reqs[q].kind = "upsert" /\ reqs[q].pc = "done"

\* C24: when upsert requests, overlapping or not, have all been answered,
\* the map (and the order of its keys) is what serving them one after
\* another in some order gives.
C24_UpsertsSerializable ==
    AllUpsertsAnswered =>
        \E p \in Orders(Len(reqs)) :
            SerialFrom(started, p, 1) = [keys |-> order, map |-> restaurants]

\* Two upserts of r1, each appending an offer, the second received while
\* the first was suspended in its save: both offers are there.
C24_Witness ==
    /\ AllUpsertsAnswered
    /\ reqs[1].id = "r1" /\ reqs[2].id = "r1"
    /\ reqs[2].during = {1}
    /\ "r1" \in DOMAIN restaurants
    /\ restaurants["r1"].offers = <<OfferA, OfferB, OfferB>>

\* C25: once the saves of all the requests have ended without error,
\* restaurants.json holds the serialization of the map.
C25_FileIsStoreAfterSaves ==
    (/\ Len(reqs) >= 1
     /\ \A q \in 1..Len(reqs) : reqs[q].pc = "done" /\ reqs[q].save = "saved")
      => file = Stringify(FALSE, order, restaurants)

\* C26: a rescan that writes its updates for a record that was upserted
\* while it awaited the fetches about it changes, in that record, only the
\* fields of its updates, and changes no other record; without updates it
\* changes nothing.
C26_RescanKeepsUpsertedFields ==
    [][(AwaitEnds("rescanWrite") /\ last'.key \in last'.upserted) =>
          LET key == last'.key
              before == restaurants[key]
          IN /\ key \in DOMAIN restaurants'
             /\ \A f \in (DOMAIN before \cup DOMAIN restaurants'[key])
                           \ DOMAIN last'.updates :
                   /\ f \in DOMAIN before
                   /\ f \in DOMAIN restaurants'[key]
                   /\ restaurants'[key][f] = before[f]
             /\ \A other \in (DOMAIN restaurants \cup DOMAIN restaurants')
                               \ {key} :
                   /\ other \in DOMAIN restaurants
                   /\ other \in DOMAIN restaurants'
                   /\ restaurants'[other] = restaurants[other]
             /\ DOMAIN last'.updates = {} => restaurants' = restaurants]_vars

\* Roma was renamed Nove, with new offers, while the rescan awaited its
\* fetches, of which only that of the menu succeeded: the name and the
\* offers are those of the upsert, the menu that of the rescan.
C26_Witness ==
    /\ last.op = "rescanWrite"
    /\ last.upserted = {"r1"}
    /\ DOMAIN last.updates = {"menu", "replace"}
    /\ "r1" \in DOMAIN restaurants
    /\ restaurants["r1"].name = "Nove"
    /\ restaurants["r1"].offers = <<OfferA>>
    /\ restaurants["r1"].menu = MenuPasta
-----------------------------------------------------------------------------
(* Properties of the chat widget (SpecWidget) *)

\* The calls of sendMessage whose request is in flight.
InFlight == {q \in 1..Len(sends) : sends[q].pc = "fetch"}

\* C29: the widget has at most one /chat request in flight: after
\* sendMessage has started a request, neither the Send button nor the Enter
\* key starts another before the first is answered or has failed.
C29_AtMostOneChatRequestInFlight == Cardinality(InFlight) <= 1

\* The answer is the degraded fallback of POST /chat: status 200 with a
\* reply and the error flag.
IsDegraded(answer) ==
    /\ answer.kind = "json"
    /\ answer.status = 200
    /\ "reply" \in DOMAIN answer.body
    /\ "error" \in DOMAIN answer.body

\* C30: when the answer to a message is the degraded fallback, the widget
\* shows the reply of that answer as a bot message and appends the pair of
\* the user's message and the reply to its history; it shows no error
\* message.
C30_FallbackReplyIsShown ==
    [][\A q \in 1..Len(sends) :
          (/\ sends[q].pc = "fetch"
           /\ sends'[q].pc = "done"
           /\ IsDegraded(sends'[q].answer)) =>
             /\ messages' = addMessage(messages, sends'[q].answer.body.reply,
                                       "bot")
             /\ history' = history \o
                   <<[role |-> "user", content |-> <<sends[q].text>>],
                     [role |-> "assistant",
                      content |-> sends'[q].answer.body.reply]>>]_vars

====
